---------------------------- MODULE Spec2Model ----------------------------
(***************************************************************************)
(* A model of SemanticCodeIndexer: the parser (src/src/parser.ts), the     *)
(* indexer that drives it and the directory scanner (both in               *)
(* src/unnamed/part_001).                                                  *)
(*                                                                         *)
(* Texts (paths, names, callee texts) are sequences of one-character       *)
(* strings, so that endsWith / includes / split / regular expressions of   *)
(* the source are computed and not assumed.  Source positions are offsets  *)
(* into a source text that is abstracted to its length and the offsets of  *)
(* its newlines.                                                           *)
(***************************************************************************)
EXTENDS Integers, Sequences, FiniteSets, TLC

---------------------------------------------------------------------------
(* JavaScript string operations *)

Max(S) == CHOOSE x \in S : \A y \in S : y <= x

Min(S) == CHOOSE x \in S : \A y \in S : x <= y

\* String.prototype.startsWith
StartsWith(s, p) == Len(p) <= Len(s) /\ SubSeq(s, 1, Len(p)) = p

\* String.prototype.endsWith
EndsWith(s, p) == Len(p) <= Len(s) /\ SubSeq(s, Len(s) - Len(p) + 1, Len(s)) = p

\* String.prototype.includes
Includes(s, p) == \E i \in 1..(Len(s) - Len(p) + 1) : SubSeq(s, i, i + Len(p) - 1) = p

UpperCase == <<"A","B","C","D","E","F","G","H","I","J","K","L","M","N","O","P","Q","R","S","T","U","V","W","X","Y","Z">>

LowerCase == <<"a","b","c","d","e","f","g","h","i","j","k","l","m","n","o","p","q","r","s","t","u","v","w","x","y","z">>

LowerChar(c) == IF \E i \in 1..Len(UpperCase) : UpperCase[i] = c
                THEN LowerCase[CHOOSE i \in 1..Len(UpperCase) : UpperCase[i] = c]
                ELSE c

\* String.prototype.toLowerCase
ToLowerCase(s) == [i \in 1..Len(s) |-> LowerChar(s[i])]

WhiteSpace == {" ", "\n", "\t"}

\* String.prototype.trim
Trim(s) ==
  LET keep == {i \in 1..Len(s) : s[i] \notin WhiteSpace}
  IN  IF keep = {} THEN <<>> ELSE SubSeq(s, Min(keep), Max(keep))

\* Array.prototype.join / String.prototype.split
RECURSIVE Join(_, _)
Join(parts, sep) ==
  IF Len(parts) = 0 THEN <<>>
  ELSE IF Len(parts) = 1 THEN parts[1]
  ELSE parts[1] \o sep \o Join(Tail(parts), sep)

Split(s, c) ==
  LET at   == {i \in 1..Len(s) : s[i] = c}
      n    == Cardinality(at)
      \* offset of the k-th separator; 0 before the first part, Len(s)+1 after the last
      cut(k) == IF k = 0 THEN 0
                ELSE IF k = n + 1 THEN Len(s) + 1
                ELSE CHOOSE i \in at : Cardinality({j \in at : j < i}) = k - 1
  IN  [k \in 1..(n + 1) |-> SubSeq(s, cut(k - 1) + 1, cut(k) - 1)]

\* Array.prototype.findIndex over path parts, 0-based, -1 when absent
FindIndex(parts, wanted) ==
  LET hits == {i \in 1..Len(parts) : parts[i] \in wanted}
  IN  IF hits = {} THEN -1 ELSE Min(hits) - 1

\* Array.prototype.filter(p => p !== '')
RECURSIVE NonEmptyParts(_)
NonEmptyParts(parts) ==
  IF Len(parts) = 0 THEN <<>>
  ELSE IF Head(parts) = <<>> THEN NonEmptyParts(Tail(parts))
  ELSE <<Head(parts)>> \o NonEmptyParts(Tail(parts))

Sep == <<"/">>

Truthy(s) == s # <<>>

---------------------------------------------------------------------------
(* node:path (posix), for paths without "." and ".." segments *)

\* path.basename
Basename(p) == LET parts == Split(p, "/") IN parts[Len(parts)]

\* path.dirname
Dirname(p) ==
  LET parts == Split(p, "/")
      front == Join(SubSeq(parts, 1, Len(parts) - 1), Sep)
  IN  IF Len(parts) = 1 THEN <<".">>
      ELSE IF front = <<>> THEN Sep
      ELSE front

\* path.extname
Extname(p) ==
  LET base == Basename(p)
      dots == {i \in 1..Len(base) : base[i] = "."}
  IN  IF dots = {} \/ Max(dots) = 1 THEN <<>>
      ELSE SubSeq(base, Max(dots), Len(base))

IsAbsolute(p) == Len(p) > 0 /\ p[1] = "/"

\* path.join(a, b)
PathJoin(a, b) ==
  LET parts == NonEmptyParts(Split(a, "/") \o Split(b, "/"))
      body  == Join(parts, Sep)
  IN  IF IsAbsolute(a) THEN Sep \o body
      ELSE IF body = <<>> THEN <<".">> ELSE body

\* path.relative(from, to), both absolute
PathRelative(from, to) ==
  LET f == NonEmptyParts(Split(from, "/"))
      t == NonEmptyParts(Split(to, "/"))
      same == {k \in 0..Min({Len(f), Len(t)}) : SubSeq(f, 1, k) = SubSeq(t, 1, k)}
      k == Max(same)
      ups == [i \in 1..(Len(f) - k) |-> <<".",".">>]
  IN  Join(ups \o SubSeq(t, k + 1, Len(t)), Sep)

---------------------------------------------------------------------------
(* The directory tree that is indexed, and scanDirectory *)

\* the files of the tree, in the order fs.readdirSync lists them
AllPaths == <<
  <<"/","s","r","c","/","a",".","t","s">>,
  <<"/","w","/","n","o","d","e","_","m","o","d","u","l","e","s","/","m",".","t","s">>,
  <<"/","w","/","n","o","t","e","s",".","m","d">>,
  <<"/","w","/","p","a","g","e","-","o","b","j","e","c","t","s","/","L","o","g","i","n",".","t","s">>,
  <<"/","w","/","t","e","s","t","s","/","a",".","s","p","e","c",".","t","s">>,
  <<"/","w","/","t","e","s","t","s","/","b",".","s","p","e","c",".","t","s">> >>

PathSet == {AllPaths[i] : i \in 1..Len(AllPaths)}

\* the prefix of what lies inside directory d
Inside(d) == IF d = Sep THEN Sep ELSE d \o Sep

IsFile(p) == p \in PathSet

IsDirectory(p) == IsAbsolute(p) /\ \E f \in PathSet : StartsWith(f, Inside(p))

\* fs.readdirSync: the entry names of directory d
RECURSIVE EntriesFrom(_, _, _)
EntriesFrom(d, i, seen) ==
  IF i > Len(AllPaths) THEN <<>>
  ELSE LET f == AllPaths[i]
           e == Split(SubSeq(f, Len(Inside(d)) + 1, Len(f)), "/")[1]
       IN  IF StartsWith(f, Inside(d)) /\ e \notin seen
           THEN <<e>> \o EntriesFrom(d, i + 1, seen \cup {e})
           ELSE EntriesFrom(d, i + 1, seen)

ReaddirSync(d) == EntriesFrom(d, 1, {})

\* the default of scanDirectory's parameter extensions
Extensions == {<<".","j","s">>, <<".","t","s">>, <<".","t","s","x">>}

\* the inner function scan of scanDirectory, returning what it pushes on files
RECURSIVE scan(_)
RECURSIVE scanEntries(_, _)
scan(currentPath) ==
  IF IsDirectory(currentPath)
  THEN IF Basename(currentPath) = <<"n","o","d","e","_","m","o","d","u","l","e","s">> \/ StartsWith(Basename(currentPath), <<".">>)
       THEN <<>>
       ELSE scanEntries(currentPath, ReaddirSync(currentPath))
  ELSE IF IsFile(currentPath) /\ Extname(currentPath) \in Extensions
       THEN <<currentPath>>
       ELSE <<>>

scanEntries(currentPath, entries) ==
  IF Len(entries) = 0 THEN <<>>
  ELSE scan(PathJoin(currentPath, Head(entries))) \o scanEntries(currentPath, Tail(entries))

\* fs.statSync(dirPath) throws when nothing is there
StatThrows(p) == ~IsDirectory(p) /\ ~IsFile(p)

scanDirectory(dirPath) == scan(dirPath)

---------------------------------------------------------------------------
(* The syntax tree that ts-morph hands to the parser.

   A source file is [src, imports, nodes]:
     src      [len, nl]: the length of the source text and the 0-based
              offsets of its newline characters;
     imports  the import declarations, each [literal, specifier, names]
              (literal: the module specifier is a string literal);
     nodes    the nodes the parser looks at, in document order (the order
              of getDescendantsOfKind); node i has kind, parent (0: the
              source file), start and end offsets, and
                Call        callee (text of getExpression()), calleeKind,
                            args (each [kind, text]), slot (the argument of
                            the parent call it lies in, 0 otherwise),
                            comment, stmt (its parent node is an expression
                            statement)
                Function    name, jsdoc
                Class       name, jsdoc
                Method      name, text (getText()), jsdoc
                Constructor body: the statements this.<name> = <value>; of
                            getBodyText(), each [name, value, text, nlBefore
                            (newlines of the body text before it), nlIn
                            (newlines inside it)]
                Property    name, type (getType().getText()), init
                            ([present, text]), text, jsdoc
                VarDecl     name, init (the kind of its initializer),
                            exported
                PropAssign  name: a property assignment of the object
                            literal that is argument slot of its parent call
              jsdoc is the description of the attached JSDoc with its
              tag lines removed ('' when there is none);
   A call node is never itself an argument of its parent call: it lies
   inside a function, arrow function or object literal argument.           *)

RECURSIVE SortedSeq(_)
SortedSeq(S) == IF S = {} THEN <<>> ELSE <<Min(S)>> \o SortedSeq(S \ {Min(S)})

RECURSIVE Ancestors(_, _)
Ancestors(nodes, i) ==
  IF nodes[i].parent = 0 THEN {}
  ELSE {nodes[i].parent} \cup Ancestors(nodes, nodes[i].parent)

\* Node.getDescendantsOfKind(kind) of the source file: ids in document order
DescendantsOfKind(nodes, kind) == SortedSeq({i \in 1..Len(nodes) : nodes[i].kind = kind})

\* the children of node p (0: the source file) of one kind, in document order
ChildrenOfKind(nodes, p, kind) ==
  SortedSeq({i \in 1..Len(nodes) : nodes[i].kind = kind /\ nodes[i].parent = p})

\* node j lies inside argument k of call d
InArgument(nodes, j, d, k) ==
  \E c \in {j} \cup Ancestors(nodes, j) : nodes[c].parent = d /\ nodes[c].slot = k

\* Node.getStartLineNumber / getEndLineNumber: the 1-based line of an offset
LineNumberAt(src, pos) == 1 + Cardinality({n \in src.nl : n < pos})

getStartLineNumber(src, node) == LineNumberAt(src, node.start)

getEndLineNumber(src, node) == LineNumberAt(src, node.end)

\* Node.getStartLinePos: the offset at which the line of the node's start begins
getStartLinePos(src, node) == Max({n + 1 : n \in {m \in src.nl : m < node.start}} \cup {0})

\* String.prototype.lastIndexOf('\n', fromIndex); a negative fromIndex counts as 0
LastNewlineIndex(src, fromIndex) ==
  LET from == IF fromIndex < 0 THEN 0 ELSE fromIndex
      hits == {n \in src.nl : n <= from}
  IN  IF hits = {} THEN -1 ELSE Max(hits)

getColumnFromPos(src, pos) == LET lastNewline == LastNewlineIndex(src, pos - 1)
                              IN  pos - lastNewline - 1

\* the value of an optional field: undefined, or a text made of source slices
\* and literal pieces
Undefined == [defined |-> FALSE, text |-> <<>>]

Defined(t) == [defined |-> TRUE, text |-> t]

\* Node.getText(): the slice of the source from start to end
getText(node) == <<[from |-> node.start, to |-> node.end]>>

---------------------------------------------------------------------------
(* CodeParser: helpers *)

\* the backquote character, which a TLA+ string cannot hold
Backquote == "bq"

QuoteChars == {"\"", "'", Backquote}

\* CodeParser.extractStringValue: one leading quote character (double, single
\* or backquote) is removed, then one trailing quote character, then trim()
extractStringValue(text) ==
  LET a == IF Len(text) > 0 /\ text[1] \in QuoteChars THEN Tail(text) ELSE text
      b == IF Len(a) > 0 /\ a[Len(a)] \in QuoteChars THEN SubSeq(a, 1, Len(a) - 1) ELSE a
  IN  Trim(b)

\* the test without the i flag
IsHookName_CaseSensitive(testName) ==
  StartsWith(testName, <<"b","e","f","o","r","e">>) \/ StartsWith(testName, <<"a","f","t","e","r">>)

\* /^(before|after)/i.test(testName)
IsHookName(testName) ==
  \/ StartsWith(ToLowerCase(testName), <<"b","e","f","o","r","e">>)
  \/ StartsWith(ToLowerCase(testName), <<"a","f","t","e","r">>)

\* exprText === 'describe' || exprText.includes('test.describe')
IsDescribeCallee(exprText) ==
  exprText = <<"d","e","s","c","r","i","b","e">> \/ Includes(exprText, <<"t","e","s","t",".","d","e","s","c","r","i","b","e">>)

\* exprText === 'test' || exprText === 'it' ||
\* exprText.startsWith('test.only') || exprText.startsWith('it.only')
IsTestCallee(exprText) ==
  \/ exprText = <<"t","e","s","t">>
  \/ exprText = <<"i","t">>
  \/ StartsWith(exprText, <<"t","e","s","t",".","o","n","l","y">>)
  \/ StartsWith(exprText, <<"i","t",".","o","n","l","y">>)

\* parts[i] of a JavaScript array (0-based) is truthy
PartTruthy(parts, i) == i + 1 <= Len(parts) /\ Truthy(parts[i + 1])

\* CodeParser.extractRepository
extractRepository(filePath) ==
  LET parts == Split(filePath, "/")
      repoIndex == FindIndex(parts, {<<"p","r","o","j","e","c","t","s">>, <<"r","e","p","o","s">>, <<"s","r","c">>})
  IN  IF repoIndex > 0 /\ PartTruthy(parts, repoIndex + 1)
      THEN parts[repoIndex + 2]
      ELSE <<"u","n","k","n","o","w","n">>

\* CodeParser.extractModule
extractModule(filePath) ==
  LET parts == Split(filePath, "/")
      srcIndex == FindIndex(parts, {<<"s","r","c">>, <<"t","e","s","t","s">>, <<"p","a","g","e","-","o","b","j","e","c","t","s">>})
  IN  IF srcIndex >= 0 /\ PartTruthy(parts, srcIndex + 1)
      THEN parts[srcIndex + 2]
      ELSE Basename(Dirname(filePath))

\* CodeParser.findRootDir
findRootDir(filePath) ==
  LET parts == Split(filePath, "/")
      srcIndex == FindIndex(parts, {<<"s","r","c">>, <<"t","e","s","t","s">>, <<"p","a","g","e","-","o","b","j","e","c","t","s">>})
  IN  IF srcIndex > 0
      THEN Join(SubSeq(parts, 1, srcIndex), Sep)
      ELSE Dirname(filePath)

\* CodeParser.getRelativePath, reading this.rootDir = root
getRelativePath(root, absolutePath) ==
  IF ~Truthy(root) THEN absolutePath ELSE PathRelative(root, absolutePath)

\* CodeParser.extractTestDocstring: a call expression has no JSDoc of its own,
\* so its leading comments are used; node.comment is their text with the
\* comment delimiters removed and trimmed ('' when there is none)
extractTestDocstring(node) == node.comment

---------------------------------------------------------------------------
(* CodeParser.extractPlaywrightSpecChunks *)

\* the chunk of a test() call found inside a describe callback
GroupedTestChunk(sf, filePath, includeCode, suiteName, testCall) ==
  LET testName == extractStringValue(testCall.args[1].text)
      found == extractTestDocstring(testCall)
  IN  [ name |-> testName,
        type |-> "test",
        filePath |-> filePath,
        testSuiteName |-> suiteName,
        testName |-> testName,
        chunkType |-> "test",
        repository |-> extractRepository(filePath),
        module |-> extractModule(filePath),
        docstring |-> Defined(IF Truthy(found) THEN found ELSE testName),
        startLine |-> getStartLineNumber(sf.src, testCall),
        endLine |-> getEndLineNumber(sf.src, testCall),
        startColumn |-> getStartLinePos(sf.src, testCall),
        endColumn |-> getColumnFromPos(sf.src, testCall.end),
        code |-> IF includeCode THEN Defined(getText(testCall)) ELSE Undefined ]

\* the chunk of a test() call outside every describe
StandaloneTestChunk(sf, filePath, includeCode, testCall) ==
  LET testName == extractStringValue(testCall.args[1].text)
      found == extractTestDocstring(testCall)
  IN  [ name |-> testName,
        type |-> "test",
        filePath |-> filePath,
        testName |-> testName,
        chunkType |-> "test",
        repository |-> extractRepository(filePath),
        module |-> extractModule(filePath),
        docstring |-> Defined(IF Truthy(found) THEN found ELSE testName),
        startLine |-> getStartLineNumber(sf.src, testCall),
        endLine |-> getEndLineNumber(sf.src, testCall),
        startColumn |-> getStartLinePos(sf.src, testCall),
        endColumn |-> getColumnFromPos(sf.src, testCall.end),
        code |-> IF includeCode THEN Defined(getText(testCall)) ELSE Undefined ]

\* a test call is skipped: fewer than two arguments, or a before/after name
SkipsTestCall(testCall) ==
  \/ Len(testCall.args) < 2
  \/ IsHookName(extractStringValue(testCall.args[1].text))

\* the inner loop: for (const testCall of testCalls)
RECURSIVE GroupedTestChunks(_, _, _, _, _)
GroupedTestChunks(sf, filePath, includeCode, suiteName, testCalls) ==
  IF Len(testCalls) = 0 THEN <<>>
  ELSE LET testCall == sf.nodes[Head(testCalls)]
           rest == GroupedTestChunks(sf, filePath, includeCode, suiteName, Tail(testCalls))
       IN  IF SkipsTestCall(testCall) THEN rest
           ELSE <<GroupedTestChunk(sf, filePath, includeCode, suiteName, testCall)>> \o rest

\* args.length >= 3 && args[1] is an object literal ? args[2] : args[1]  (1-based here)
CallbackIndex(describeCall) ==
  IF Len(describeCall.args) >= 3 /\ describeCall.args[2].kind = "ObjectLiteral" THEN 3 ELSE 2

\* callback.getDescendantsOfKind(CallExpression).filter(test callee)
TestCallsInside(sf, d) ==
  SortedSeq({j \in 1..Len(sf.nodes) :
               /\ sf.nodes[j].kind = "Call"
               /\ IsTestCallee(sf.nodes[j].callee)
               /\ InArgument(sf.nodes, j, d, CallbackIndex(sf.nodes[d]))})

\* the outer loop: for (const describeCall of describeCalls)
RECURSIVE DescribeChunks(_, _, _, _)
DescribeChunks(sf, filePath, includeCode, describeCalls) ==
  IF Len(describeCalls) = 0 THEN <<>>
  ELSE LET d == Head(describeCalls)
           describeCall == sf.nodes[d]
           rest == DescribeChunks(sf, filePath, includeCode, Tail(describeCalls))
       IN  IF Len(describeCall.args) < 2 THEN rest
           ELSE GroupedTestChunks(sf, filePath, includeCode,
                                  extractStringValue(describeCall.args[1].text),
                                  TestCallsInside(sf, d)) \o rest

\* ancestors.some(ancestor is a call expression with a describe callee)
IsInsideDescribe(sf, j) ==
  \E a \in Ancestors(sf.nodes, j) :
     sf.nodes[a].kind = "Call" /\ IsDescribeCallee(sf.nodes[a].callee)

\* the second loop: for (const testCall of allTestCalls)
RECURSIVE StandaloneChunks(_, _, _, _)
StandaloneChunks(sf, filePath, includeCode, allTestCalls) ==
  IF Len(allTestCalls) = 0 THEN <<>>
  ELSE LET j == Head(allTestCalls)
           testCall == sf.nodes[j]
           rest == StandaloneChunks(sf, filePath, includeCode, Tail(allTestCalls))
       IN  IF IsInsideDescribe(sf, j) \/ SkipsTestCall(testCall) THEN rest
           ELSE <<StandaloneTestChunk(sf, filePath, includeCode, testCall)>> \o rest

extractPlaywrightSpecChunks(sf, filePath, includeCode) ==
  LET describeCalls == SortedSeq({i \in 1..Len(sf.nodes) :
                          sf.nodes[i].kind = "Call" /\ IsDescribeCallee(sf.nodes[i].callee)})
      allTestCalls == SortedSeq({i \in 1..Len(sf.nodes) :
                          sf.nodes[i].kind = "Call" /\ IsTestCallee(sf.nodes[i].callee)})
  IN  DescribeChunks(sf, filePath, includeCode, describeCalls)
        \o StandaloneChunks(sf, filePath, includeCode, allTestCalls)

---------------------------------------------------------------------------
(* CodeParser.extractGenericChunks *)

Anonymous == <<"<","a","n","o","n","y","m","o","u","s",">">>

\* getName() || '<anonymous>'
NameOr(name) == IF Truthy(name) THEN name ELSE Anonymous

\* getJsDocs().map(doc => doc.getDescription()).join('\n').trim() || undefined
DocOrUndefined(jsdoc) == IF Truthy(jsdoc) THEN Defined(jsdoc) ELSE Undefined

FunctionChunk(sf, filePath, includeCode, func) ==
  [ name |-> NameOr(func.name),
    type |-> "function",
    filePath |-> filePath,
    startLine |-> getStartLineNumber(sf.src, func),
    endLine |-> getEndLineNumber(sf.src, func),
    startColumn |-> getStartLinePos(sf.src, func),
    endColumn |-> getColumnFromPos(sf.src, func.end),
    docstring |-> DocOrUndefined(func.jsdoc),
    code |-> IF includeCode THEN Defined(getText(func)) ELSE Undefined ]

ClassChunk(sf, filePath, includeCode, cls) ==
  [ name |-> NameOr(cls.name),
    type |-> "class",
    filePath |-> filePath,
    className |-> NameOr(cls.name),
    startLine |-> getStartLineNumber(sf.src, cls),
    endLine |-> getEndLineNumber(sf.src, cls),
    startColumn |-> getStartLinePos(sf.src, cls),
    endColumn |-> getColumnFromPos(sf.src, cls.end),
    docstring |-> DocOrUndefined(cls.jsdoc),
    code |-> IF includeCode THEN Defined(getText(cls)) ELSE Undefined ]

MethodChunk(sf, filePath, includeCode, cls, method) ==
  [ name |-> NameOr(method.name),
    type |-> IF method.name = <<"c","o","n","s","t","r","u","c","t","o","r">> THEN "constructor" ELSE "method",
    filePath |-> filePath,
    className |-> NameOr(cls.name),
    functionName |-> NameOr(method.name),
    startLine |-> getStartLineNumber(sf.src, method),
    endLine |-> getEndLineNumber(sf.src, method),
    startColumn |-> getStartLinePos(sf.src, method),
    endColumn |-> getColumnFromPos(sf.src, method.end),
    docstring |-> DocOrUndefined(method.jsdoc),
    code |-> IF includeCode THEN Defined(getText(method)) ELSE Undefined ]

\* variant: an arrow function bound to a variable is emitted with the function kind
ArrowChunk_AsFunction(sf, filePath, includeCode, variable) ==
  [ name |-> variable.name,
    type |-> "function",
    filePath |-> filePath,
    startLine |-> getStartLineNumber(sf.src, variable),
    endLine |-> getEndLineNumber(sf.src, variable),
    startColumn |-> getStartLinePos(sf.src, variable),
    endColumn |-> getColumnFromPos(sf.src, variable.end),
    code |-> IF includeCode THEN Defined(getText(variable)) ELSE Undefined ]

ArrowChunk(sf, filePath, includeCode, variable) ==
  [ name |-> variable.name,
    type |-> "arrow_function",
    filePath |-> filePath,
    startLine |-> getStartLineNumber(sf.src, variable),
    endLine |-> getEndLineNumber(sf.src, variable),
    startColumn |-> getStartLinePos(sf.src, variable),
    endColumn |-> getColumnFromPos(sf.src, variable.end),
    code |-> IF includeCode THEN Defined(getText(variable)) ELSE Undefined ]

\* sourceFile.getFunctions(): the function declarations among its statements
getFunctions(sf) == ChildrenOfKind(sf.nodes, 0, "Function")

\* sourceFile.getClasses(): the class declarations among its statements
getClasses(sf) == ChildrenOfKind(sf.nodes, 0, "Class")

\* cls.getMethods(): the method declarations among the members of the class
getMethods(sf, c) == ChildrenOfKind(sf.nodes, c, "Method")

\* sourceFile.getVariableDeclarations(): the declarations of its variable statements
getVariableDeclarations(sf) == ChildrenOfKind(sf.nodes, 0, "VarDecl")

RECURSIVE GenericFunctionChunks(_, _, _, _)
GenericFunctionChunks(sf, filePath, includeCode, funcs) ==
  IF Len(funcs) = 0 THEN <<>>
  ELSE <<FunctionChunk(sf, filePath, includeCode, sf.nodes[Head(funcs)])>>
         \o GenericFunctionChunks(sf, filePath, includeCode, Tail(funcs))

RECURSIVE GenericMethodChunks(_, _, _, _, _)
GenericMethodChunks(sf, filePath, includeCode, cls, methods) ==
  IF Len(methods) = 0 THEN <<>>
  ELSE <<MethodChunk(sf, filePath, includeCode, cls, sf.nodes[Head(methods)])>>
         \o GenericMethodChunks(sf, filePath, includeCode, cls, Tail(methods))

RECURSIVE GenericClassChunks(_, _, _, _)
GenericClassChunks(sf, filePath, includeCode, classes) ==
  IF Len(classes) = 0 THEN <<>>
  ELSE LET c == Head(classes)
       IN  <<ClassChunk(sf, filePath, includeCode, sf.nodes[c])>>
             \o GenericMethodChunks(sf, filePath, includeCode, sf.nodes[c], getMethods(sf, c))
             \o GenericClassChunks(sf, filePath, includeCode, Tail(classes))

RECURSIVE GenericArrowChunks(_, _, _, _)
GenericArrowChunks(sf, filePath, includeCode, variables) ==
  IF Len(variables) = 0 THEN <<>>
  ELSE LET variable == sf.nodes[Head(variables)]
           rest == GenericArrowChunks(sf, filePath, includeCode, Tail(variables))
       IN  IF variable.init = "ArrowFunction"
           THEN <<ArrowChunk(sf, filePath, includeCode, variable)>> \o rest
           ELSE rest

extractGenericChunks(sf, filePath, includeCode) ==
  GenericFunctionChunks(sf, filePath, includeCode, getFunctions(sf))
    \o GenericClassChunks(sf, filePath, includeCode, getClasses(sf))
    \o GenericArrowChunks(sf, filePath, includeCode, getVariableDeclarations(sf))

---------------------------------------------------------------------------
(* CodeParser.extractEdgeCasePatterns *)

SetupChunk(sf, filePath, includeCode, setupCall) ==
  [ name |-> IF setupCall.args[1].kind = "StringLiteral"
             THEN extractStringValue(setupCall.args[1].text)
             ELSE <<"S","e","t","u","p">>,
    type |-> "setup",
    filePath |-> filePath,
    startLine |-> getStartLineNumber(sf.src, setupCall),
    endLine |-> getEndLineNumber(sf.src, setupCall),
    startColumn |-> getStartLinePos(sf.src, setupCall),
    endColumn |-> getColumnFromPos(sf.src, setupCall.end),
    code |-> IF includeCode THEN Defined(getText(setupCall)) ELSE Undefined ]

FixtureChunk(sf, filePath, includeCode, prop) ==
  [ name |-> prop.name,
    type |-> "fixture",
    filePath |-> filePath,
    startLine |-> getStartLineNumber(sf.src, prop),
    endLine |-> getEndLineNumber(sf.src, prop),
    startColumn |-> getStartLinePos(sf.src, prop),
    endColumn |-> getColumnFromPos(sf.src, prop.end),
    code |-> IF includeCode THEN Defined(getText(prop)) ELSE Undefined ]

ConstantChunk(sf, filePath, includeCode, decl) ==
  [ name |-> decl.name,
    type |-> "constant",
    filePath |-> filePath,
    startLine |-> getStartLineNumber(sf.src, decl),
    endLine |-> getEndLineNumber(sf.src, decl),
    startColumn |-> getStartLinePos(sf.src, decl),
    endColumn |-> getColumnFromPos(sf.src, decl.end),
    code |-> IF includeCode THEN Defined(getText(decl)) ELSE Undefined ]

IifeChunk(sf, filePath, includeCode, iife) ==
  [ name |-> <<"I","I","F","E"," ","i","n"," ">> \o Basename(filePath),
    type |-> "iife",
    filePath |-> filePath,
    startLine |-> getStartLineNumber(sf.src, iife),
    endLine |-> getEndLineNumber(sf.src, iife),
    startColumn |-> getStartLinePos(sf.src, iife),
    endColumn |-> getColumnFromPos(sf.src, iife.end),
    code |-> IF includeCode THEN Defined(getText(iife)) ELSE Undefined ]

\* 1. setup() and test.use() calls with at least one argument
RECURSIVE SetupChunks(_, _, _, _)
SetupChunks(sf, filePath, includeCode, calls) ==
  IF Len(calls) = 0 THEN <<>>
  ELSE LET call == sf.nodes[Head(calls)]
           rest == SetupChunks(sf, filePath, includeCode, Tail(calls))
       IN  IF (call.callee = <<"s","e","t","u","p">> \/ Includes(call.callee, <<"t","e","s","t",".","u","s","e">>))
              /\ Len(call.args) >= 1
           THEN <<SetupChunk(sf, filePath, includeCode, call)>> \o rest
           ELSE rest

\* 2. the property assignments of the object literal given to test.extend()
RECURSIVE FixturesOf(_, _, _, _)
FixturesOf(sf, filePath, includeCode, props) ==
  IF Len(props) = 0 THEN <<>>
  ELSE LET prop == sf.nodes[Head(props)]
           rest == FixturesOf(sf, filePath, includeCode, Tail(props))
       IN  IF prop.slot = 1
           THEN <<FixtureChunk(sf, filePath, includeCode, prop)>> \o rest
           ELSE rest

RECURSIVE FixtureChunks(_, _, _, _)
FixtureChunks(sf, filePath, includeCode, calls) ==
  IF Len(calls) = 0 THEN <<>>
  ELSE LET c == Head(calls)
           call == sf.nodes[c]
           rest == FixtureChunks(sf, filePath, includeCode, Tail(calls))
       IN  IF (Includes(call.callee, <<"t","e","s","t",".","e","x","t","e","n","d">>) \/ Includes(call.callee, <<"b","a","s","e",".","e","x","t","e","n","d">>))
              /\ Len(call.args) > 0 /\ call.args[1].kind = "ObjectLiteral"
           THEN FixturesOf(sf, filePath, includeCode,
                           ChildrenOfKind(sf.nodes, c, "PropAssign")) \o rest
           ELSE rest

\* 3. exported variable declarations initialized with an object or array literal
RECURSIVE ConstantChunks(_, _, _, _)
ConstantChunks(sf, filePath, includeCode, decls) ==
  IF Len(decls) = 0 THEN <<>>
  ELSE LET decl == sf.nodes[Head(decls)]
           rest == ConstantChunks(sf, filePath, includeCode, Tail(decls))
       IN  IF decl.exported /\ decl.init \in {"ObjectLiteral", "ArrayLiteral"}
           THEN <<ConstantChunk(sf, filePath, includeCode, decl)>> \o rest
           ELSE rest

\* 4. calls of a parenthesized function or arrow function that are a statement
RECURSIVE IifeChunks(_, _, _, _)
IifeChunks(sf, filePath, includeCode, calls) ==
  IF Len(calls) = 0 THEN <<>>
  ELSE LET call == sf.nodes[Head(calls)]
           rest == IifeChunks(sf, filePath, includeCode, Tail(calls))
       IN  IF call.calleeKind = "ParenthesizedFunction" /\ call.stmt
           THEN <<IifeChunk(sf, filePath, includeCode, call)>> \o rest
           ELSE rest

\* variant: the generic chunks are added to the edge-case chunks in every case
extractEdgeCasePatterns_WithGeneric(sf, filePath, includeCode) ==
  LET calls == DescendantsOfKind(sf.nodes, "Call")
      chunks == SetupChunks(sf, filePath, includeCode, calls)
                  \o FixtureChunks(sf, filePath, includeCode, calls)
                  \o ConstantChunks(sf, filePath, includeCode, getVariableDeclarations(sf))
                  \o IifeChunks(sf, filePath, includeCode, calls)
  IN  chunks \o extractGenericChunks(sf, filePath, includeCode)

extractEdgeCasePatterns(sf, filePath, includeCode) ==
  LET calls == DescendantsOfKind(sf.nodes, "Call")
      chunks == SetupChunks(sf, filePath, includeCode, calls)
                  \o FixtureChunks(sf, filePath, includeCode, calls)
                  \o ConstantChunks(sf, filePath, includeCode, getVariableDeclarations(sf))
                  \o IifeChunks(sf, filePath, includeCode, calls)
  IN  IF Len(chunks) = 0
      THEN extractGenericChunks(sf, filePath, includeCode)
      ELSE chunks

---------------------------------------------------------------------------
(* CodeParser.extractPlaywrightPOMChunks and its sub-extractors *)

\* a literal piece of a composed code text
Lit(s) == [lit |-> s]

\* `${propDeclaration}\n\n// Initialization:\n${initCode}`
InitializationCode(declaration, st) ==
  declaration \o <<Lit("\n\n// Initialization:\n")>> \o <<[from |-> st.start, to |-> st.end]>>

\* cls.getProperties()
getProperties(sf, c) == ChildrenOfKind(sf.nodes, c, "Property")

\* cls.getConstructors()[0]: 0 when the class declares no constructor
FirstConstructor(sf, c) ==
  LET ctors == ChildrenOfKind(sf.nodes, c, "Constructor")
  IN  IF Len(ctors) = 0 THEN 0 ELSE ctors[1]

\* variant: a lookup that finds no related test file
getRelatedTestCases_None(p2t, className) == <<>>

\* CodeParser.getRelatedTestCases, reading this.pageObjectToTests = p2t
getRelatedTestCases(p2t, className) ==
  IF className \in DOMAIN p2t THEN p2t[className] ELSE <<>>

\* CodeParser.determineChunkType
determineChunkType(methodNames, content) ==
  LET contentLower == ToLowerCase(content)
      namesLower == ToLowerCase(Join(methodNames, <<" ">>))
  IN  IF \/ Includes(contentLower, <<"e","x","p","e","c","t">>) \/ Includes(contentLower, <<"a","s","s","e","r","t">>)
         \/ Includes(namesLower, <<"v","e","r","i","f","y">>) \/ Includes(namesLower, <<"c","h","e","c","k">>)
         \/ Includes(namesLower, <<"s","h","o","u","l","d">>) \/ Includes(namesLower, <<"a","s","s","e","r","t">>)
      THEN "assert"
      ELSE IF \/ Includes(contentLower, <<"c","l","i","c","k">>) \/ Includes(contentLower, <<"f","i","l","l">>)
              \/ Includes(contentLower, <<"g","o","t","o">>) \/ Includes(contentLower, <<".","s","e","l","e","c","t","o","p","t","i","o","n">>)
              \/ Includes(namesLower, <<"c","l","i","c","k">>) \/ Includes(namesLower, <<"n","a","v","i","g","a","t","e">>)
              \/ Includes(namesLower, <<"s","e","l","e","c","t">>) \/ Includes(namesLower, <<"t","y","p","e">>)
              \/ Includes(namesLower, <<"s","u","b","m","i","t">>) \/ Includes(namesLower, <<"o","p","e","n">>)
              \/ Includes(namesLower, <<"c","l","o","s","e">>) \/ Includes(namesLower, <<"d","r","a","g">>)
              \/ Includes(namesLower, <<"d","r","o","p">>)
      THEN "action"
      ELSE "helper"

\* initializer?.getText().includes('page.locator') || ...includes('page.getByRole')
IsLocatorInitializer(prop) ==
  prop.init.present /\ (Includes(prop.init.text, <<"p","a","g","e",".","l","o","c","a","t","o","r">>)
                          \/ Includes(prop.init.text, <<"p","a","g","e",".","g","e","t","B","y","R","o","l","e">>))

\* constructorBody.match(/this\.<propName>\s*=([^;]+);/s): the index of the
\* first statement that assigns this.<propName>, 0 when there is none
FirstAssignment(body, propName) ==
  LET hits == {k \in 1..Len(body) : body[k].name = propName}
  IN  IF hits = {} THEN 0 ELSE Min(hits)

\* a locator initialized in the constructor
ConstructorLocatorChunk(sf, filePath, className, related, includeCode, ctor, prop, st) ==
  LET constructorStart == getStartLineNumber(sf.src, ctor)
  IN  [ name |-> prop.name,
        type |-> "locator",
        filePath |-> filePath,
        className |-> className,
        functionName |-> prop.name,
        chunkType |-> "locator",
        repository |-> extractRepository(filePath),
        module |-> extractModule(filePath),
        relatedTestCases |-> related,
        docstring |-> DocOrUndefined(prop.jsdoc),
        startLine |-> constructorStart + st.nlBefore,
        endLine |-> constructorStart + st.nlBefore + st.nlIn,
        startColumn |-> getStartLinePos(sf.src, prop),
        endColumn |-> getColumnFromPos(sf.src, prop.end),
        code |-> IF includeCode THEN Defined(InitializationCode(getText(prop), st))
                 ELSE Undefined ]

\* a locator initialized where the property is declared
InitializerLocatorChunk(sf, filePath, className, related, includeCode, prop) ==
  [ name |-> prop.name,
    type |-> "locator",
    filePath |-> filePath,
    className |-> className,
    functionName |-> prop.name,
    chunkType |-> "locator",
    repository |-> extractRepository(filePath),
    module |-> extractModule(filePath),
    relatedTestCases |-> related,
    docstring |-> DocOrUndefined(prop.jsdoc),
    startLine |-> getStartLineNumber(sf.src, prop),
    endLine |-> getEndLineNumber(sf.src, prop),
    startColumn |-> getStartLinePos(sf.src, prop),
    endColumn |-> getColumnFromPos(sf.src, prop.end),
    code |-> IF includeCode THEN Defined(getText(prop)) ELSE Undefined ]

\* the loop over the properties of a class with a constructor
RECURSIVE LocatorsWithConstructor(_, _, _, _, _, _, _)
LocatorsWithConstructor(sf, filePath, className, related, includeCode, ctor, props) ==
  IF Len(props) = 0 THEN <<>>
  ELSE LET prop == sf.nodes[Head(props)]
           rest == LocatorsWithConstructor(sf, filePath, className, related, includeCode,
                                           ctor, Tail(props))
           k == FirstAssignment(ctor.body, prop.name)
       IN  IF ~Includes(prop.type, <<"L","o","c","a","t","o","r">>) THEN rest
           ELSE IF k # 0
             THEN <<ConstructorLocatorChunk(sf, filePath, className, related, includeCode,
                                            ctor, prop, ctor.body[k])>> \o rest
           ELSE IF IsLocatorInitializer(prop)
             THEN <<InitializerLocatorChunk(sf, filePath, className, related, includeCode,
                                            prop)>> \o rest
           ELSE rest

\* the loop over the properties of a class without a constructor
RECURSIVE LocatorsWithoutConstructor(_, _, _, _, _, _)
LocatorsWithoutConstructor(sf, filePath, className, related, includeCode, props) ==
  IF Len(props) = 0 THEN <<>>
  ELSE LET prop == sf.nodes[Head(props)]
           rest == LocatorsWithoutConstructor(sf, filePath, className, related, includeCode,
                                              Tail(props))
       IN  IF IsLocatorInitializer(prop)
           THEN <<InitializerLocatorChunk(sf, filePath, className, related, includeCode,
                                          prop)>> \o rest
           ELSE rest

\* CodeParser.extractLocatorsFromClass
extractLocatorsFromClass(sf, c, filePath, className, related, includeCode) ==
  LET ctor == FirstConstructor(sf, c)
  IN  IF ctor # 0
      THEN LocatorsWithConstructor(sf, filePath, className, related, includeCode,
                                   sf.nodes[ctor], getProperties(sf, c))
      ELSE LocatorsWithoutConstructor(sf, filePath, className, related, includeCode,
                                      getProperties(sf, c))

\* propValue.includes('page.locator') || propValue.includes('page.getBy')
IsLocatorValue(text) == Includes(text, <<"p","a","g","e",".","l","o","c","a","t","o","r">>) \/ Includes(text, <<"p","a","g","e",".","g","e","t","B","y">>)

\* properties.find(p => p.getName() === propName): 0 when there is none
FindProperty(sf, props, propName) ==
  LET hits == {k \in 1..Len(props) : sf.nodes[props[k]].name = propName}
  IN  IF hits = {} THEN 0 ELSE props[Min(hits)]

\* variant: the chunk of an assigned property carries its code in every case
AssignedPropertyChunk_AlwaysCode(sf, filePath, className, related, includeCode, ctor, p, st) ==
  LET constructorStart == getStartLineNumber(sf.src, ctor)
      propDeclaration == IF p # 0 THEN getText(sf.nodes[p])
                         ELSE <<Lit(st.name \o <<":"," ","a","n","y",";">>)>>
  IN  [ name |-> st.name,
        type |-> "helper",
        filePath |-> filePath,
        className |-> className,
        functionName |-> st.name,
        chunkType |-> "helper",
        repository |-> extractRepository(filePath),
        module |-> extractModule(filePath),
        relatedTestCases |-> related,
        docstring |-> IF p # 0 THEN DocOrUndefined(sf.nodes[p].jsdoc) ELSE Undefined,
        startLine |-> constructorStart + st.nlBefore,
        endLine |-> constructorStart + st.nlBefore + st.nlIn,
        startColumn |-> getStartLinePos(sf.src, ctor),
        endColumn |-> getColumnFromPos(sf.src, ctor.end),
        code |-> Defined(InitializationCode(propDeclaration, st)) ]

\* a property assigned a plain value in the constructor
AssignedPropertyChunk(sf, filePath, className, related, includeCode, ctor, p, st) ==
  LET constructorStart == getStartLineNumber(sf.src, ctor)
      propDeclaration == IF p # 0 THEN getText(sf.nodes[p])
                         ELSE <<Lit(st.name \o <<":"," ","a","n","y",";">>)>>
  IN  [ name |-> st.name,
        type |-> "helper",
        filePath |-> filePath,
        className |-> className,
        functionName |-> st.name,
        chunkType |-> "helper",
        repository |-> extractRepository(filePath),
        module |-> extractModule(filePath),
        relatedTestCases |-> related,
        docstring |-> IF p # 0 THEN DocOrUndefined(sf.nodes[p].jsdoc) ELSE Undefined,
        startLine |-> constructorStart + st.nlBefore,
        endLine |-> constructorStart + st.nlBefore + st.nlIn,
        startColumn |-> getStartLinePos(sf.src, ctor),
        endColumn |-> getColumnFromPos(sf.src, ctor.end),
        code |-> IF includeCode THEN Defined(InitializationCode(propDeclaration, st))
                 ELSE Undefined ]

\* a property with a plain initializer
InitializedPropertyChunk(sf, filePath, className, related, includeCode, prop) ==
  [ name |-> prop.name,
    type |-> "helper",
    filePath |-> filePath,
    className |-> className,
    functionName |-> prop.name,
    chunkType |-> "helper",
    repository |-> extractRepository(filePath),
    module |-> extractModule(filePath),
    relatedTestCases |-> related,
    docstring |-> DocOrUndefined(prop.jsdoc),
    startLine |-> getStartLineNumber(sf.src, prop),
    endLine |-> getEndLineNumber(sf.src, prop),
    startColumn |-> getStartLinePos(sf.src, prop),
    endColumn |-> getColumnFromPos(sf.src, prop.end),
    code |-> IF includeCode THEN Defined(getText(prop)) ELSE Undefined ]

\* the names the while loop over the constructor's assignments adds to processedProps
RECURSIVE AssignedNames(_, _)
AssignedNames(body, k) ==
  IF k > Len(body) THEN {}
  ELSE (IF IsLocatorValue(body[k].value) THEN {} ELSE {body[k].name})
         \cup AssignedNames(body, k + 1)

\* while ((match = assignmentRegex.exec(constructorBody)) !== null)
RECURSIVE AssignedProperties(_, _, _, _, _, _, _, _, _)
AssignedProperties(sf, filePath, className, related, includeCode, ctor, props, k, processedProps) ==
  IF k > Len(ctor.body) THEN <<>>
  ELSE LET st == ctor.body[k]
       IN  IF IsLocatorValue(st.value) \/ st.name \in processedProps
           THEN AssignedProperties(sf, filePath, className, related, includeCode, ctor,
                                   props, k + 1, processedProps)
           ELSE <<AssignedPropertyChunk(sf, filePath, className, related, includeCode, ctor,
                                        FindProperty(sf, props, st.name), st)>>
                  \o AssignedProperties(sf, filePath, className, related, includeCode, ctor,
                                        props, k + 1, processedProps \cup {st.name})

\* for (const prop of properties): the properties with direct initializers
RECURSIVE InitializedProperties(_, _, _, _, _, _, _)
InitializedProperties(sf, filePath, className, related, includeCode, props, processedProps) ==
  IF Len(props) = 0 THEN <<>>
  ELSE LET prop == sf.nodes[Head(props)]
           take == /\ prop.name \notin processedProps
                   /\ ~Includes(prop.type, <<"L","o","c","a","t","o","r">>)
                   /\ prop.init.present
                   /\ ~Includes(prop.init.text, <<"p","a","g","e",".","l","o","c","a","t","o","r">>)
                   /\ ~Includes(prop.init.text, <<"p","a","g","e",".","g","e","t","B","y">>)
       IN  IF take
           THEN <<InitializedPropertyChunk(sf, filePath, className, related, includeCode, prop)>>
                  \o InitializedProperties(sf, filePath, className, related, includeCode,
                                           Tail(props), processedProps \cup {prop.name})
           ELSE InitializedProperties(sf, filePath, className, related, includeCode,
                                      Tail(props), processedProps)

\* CodeParser.extractSimpleProperties
extractSimpleProperties(sf, c, filePath, className, related, includeCode) ==
  LET ctor == FirstConstructor(sf, c)
      props == getProperties(sf, c)
      body == IF ctor # 0 THEN sf.nodes[ctor].body ELSE <<>>
  IN  (IF ctor # 0
       THEN AssignedProperties(sf, filePath, className, related, includeCode,
                               sf.nodes[ctor], props, 1, {})
       ELSE <<>>)
        \o InitializedProperties(sf, filePath, className, related, includeCode, props,
                                 AssignedNames(body, 1))

\* methods.map(m => m.getName())
RECURSIVE MethodNames(_, _)
MethodNames(sf, methods) ==
  IF Len(methods) = 0 THEN <<>>
  ELSE <<sf.nodes[Head(methods)].name>> \o MethodNames(sf, Tail(methods))

\* methods.map(m => m.getText())
RECURSIVE MethodTexts(_, _)
MethodTexts(sf, methods) ==
  IF Len(methods) = 0 THEN <<>>
  ELSE <<sf.nodes[Head(methods)].text>> \o MethodTexts(sf, Tail(methods))

\* the pieces of methods.map(m => m.getText()).join('\n\n')
RECURSIVE MethodsCode(_, _)
MethodsCode(sf, methods) ==
  IF Len(methods) = 0 THEN <<>>
  ELSE IF Len(methods) = 1 THEN getText(sf.nodes[Head(methods)])
  ELSE getText(sf.nodes[Head(methods)]) \o <<Lit("\n\n")>> \o MethodsCode(sf, Tail(methods))

\* variant: the chunk of the methods ends where the first method ends
ActionsChunk_EndsAtFirstMethod(sf, filePath, className, related, includeCode, methods) ==
  LET first == sf.nodes[methods[1]]
      last == sf.nodes[methods[Len(methods)]]
      methodNames == MethodNames(sf, methods)
      \* code || ''
      content == IF includeCode THEN Join(MethodTexts(sf, methods), <<"\n","\n">>) ELSE <<>>
      chunkType == determineChunkType(methodNames, content)
  IN  [ name |-> className \o <<"_","a","c","t","i","o","n","s">>,
        type |-> chunkType,
        filePath |-> filePath,
        className |-> className,
        functionName |-> Join(methodNames, <<","," ">>),
        chunkType |-> chunkType,
        repository |-> extractRepository(filePath),
        module |-> extractModule(filePath),
        relatedTestCases |-> related,
        startLine |-> getStartLineNumber(sf.src, first),
        endLine |-> getEndLineNumber(sf.src, first),
        startColumn |-> getStartLinePos(sf.src, first),
        endColumn |-> getColumnFromPos(sf.src, last.end),
        code |-> IF includeCode THEN Defined(MethodsCode(sf, methods)) ELSE Undefined ]

\* the single chunk that holds all methods of a class
ActionsChunk(sf, filePath, className, related, includeCode, methods) ==
  LET first == sf.nodes[methods[1]]
      last == sf.nodes[methods[Len(methods)]]
      methodNames == MethodNames(sf, methods)
      \* code || ''
      content == IF includeCode THEN Join(MethodTexts(sf, methods), <<"\n","\n">>) ELSE <<>>
      chunkType == determineChunkType(methodNames, content)
  IN  [ name |-> className \o <<"_","a","c","t","i","o","n","s">>,
        type |-> chunkType,
        filePath |-> filePath,
        className |-> className,
        functionName |-> Join(methodNames, <<","," ">>),
        chunkType |-> chunkType,
        repository |-> extractRepository(filePath),
        module |-> extractModule(filePath),
        relatedTestCases |-> related,
        startLine |-> getStartLineNumber(sf.src, first),
        endLine |-> getEndLineNumber(sf.src, last),
        startColumn |-> getStartLinePos(sf.src, first),
        endColumn |-> getColumnFromPos(sf.src, last.end),
        code |-> IF includeCode THEN Defined(MethodsCode(sf, methods)) ELSE Undefined ]

\* the basic class chunk
FallbackClassChunk(sf, filePath, className, related, includeCode, cls) ==
  [ name |-> className \o <<"_","c","l","a","s","s">>,
    type |-> "helper",
    filePath |-> filePath,
    className |-> className,
    chunkType |-> "helper",
    repository |-> extractRepository(filePath),
    module |-> extractModule(filePath),
    relatedTestCases |-> related,
    docstring |-> DocOrUndefined(cls.jsdoc),
    startLine |-> getStartLineNumber(sf.src, cls),
    endLine |-> getEndLineNumber(sf.src, cls),
    startColumn |-> getStartLinePos(sf.src, cls),
    endColumn |-> getColumnFromPos(sf.src, cls.end),
    code |-> IF includeCode THEN Defined(getText(cls)) ELSE Undefined ]

\* the loop for (const cls of classes), chunks being what was pushed so far
RECURSIVE ClassChunks(_, _, _, _, _, _)
ClassChunks(sf, filePath, includeCode, p2t, classes, chunks) ==
  IF Len(classes) = 0 THEN chunks
  ELSE LET c == Head(classes)
           cls == sf.nodes[c]
           className == NameOr(cls.name)
           related == getRelatedTestCases(p2t, className)
           methods == getMethods(sf, c)
           extracted ==
             chunks
               \o extractLocatorsFromClass(sf, c, filePath, className, related, includeCode)
               \o extractSimpleProperties(sf, c, filePath, className, related, includeCode)
               \o (IF Len(methods) > 0
                   THEN <<ActionsChunk(sf, filePath, className, related, includeCode, methods)>>
                   ELSE <<>>)
           pushed ==
             IF Len(extracted) = 0 /\ FirstConstructor(sf, c) # 0
             THEN <<FallbackClassChunk(sf, filePath, className, related, includeCode, cls)>>
             ELSE extracted
       IN  ClassChunks(sf, filePath, includeCode, p2t, Tail(classes), pushed)

extractPlaywrightPOMChunks(sf, filePath, includeCode, p2t) ==
  LET classes == getClasses(sf)
      edgeCaseChunks == extractEdgeCasePatterns(sf, filePath, includeCode)
  IN  IF Len(classes) = 0
      THEN IF Len(edgeCaseChunks) > 0 THEN edgeCaseChunks
           ELSE extractGenericChunks(sf, filePath, includeCode)
      ELSE ClassChunks(sf, filePath, includeCode, p2t, classes, <<>>)

---------------------------------------------------------------------------
(* CodeParser.parseFile: what it returns once the file is read *)

\* variant: only the names that end with .spec.ts are names of test files
IsTestFileName_SpecTsOnly(fileName) == EndsWith(fileName, <<".","s","p","e","c",".","t","s">>)

\* the test-file condition of parseFile, on the base name of the file
IsTestFileName(fileName) ==
  \/ EndsWith(fileName, <<".","s","p","e","c",".","t","s">>) \/ EndsWith(fileName, <<".","s","p","e","c",".","j","s">>)
  \/ EndsWith(fileName, <<".","a","p","i","-","s","p","e","c",".","t","s">>) \/ EndsWith(fileName, <<".","a","p","i","-","s","p","e","c",".","j","s">>)
  \/ Includes(fileName, <<".","s","e","t","u","p">>) \/ Includes(fileName, <<".","s","e","t","u","p","-">>)

\* variant: a test file gets its edge-case chunks besides its test chunks
ParsedChunks_WithEdgeCases(sf, filePath, relativeFilePath, includeCode, projectType, p2t) ==
  LET fileName == Basename(filePath)
  IN  IF projectType = "playwright"
      THEN IF IsTestFileName(fileName)
           THEN LET chunks == extractPlaywrightSpecChunks(sf, relativeFilePath, includeCode)
                IN  chunks \o extractEdgeCasePatterns(sf, relativeFilePath, includeCode)
           ELSE extractPlaywrightPOMChunks(sf, relativeFilePath, includeCode, p2t)
      ELSE extractGenericChunks(sf, relativeFilePath, includeCode)

\* the chunks parseFile returns for source file sf read from filePath
ParsedChunks(sf, filePath, relativeFilePath, includeCode, projectType, p2t) ==
  LET fileName == Basename(filePath)
  IN  IF projectType = "playwright"
      THEN IF IsTestFileName(fileName)
           THEN LET chunks == extractPlaywrightSpecChunks(sf, relativeFilePath, includeCode)
                IN  IF Len(chunks) = 0
                    THEN extractEdgeCasePatterns(sf, relativeFilePath, includeCode)
                    ELSE chunks
           ELSE extractPlaywrightPOMChunks(sf, relativeFilePath, includeCode, p2t)
      ELSE extractGenericChunks(sf, relativeFilePath, includeCode)

---------------------------------------------------------------------------
(* The contents a file of the tree can have.  Each is the syntax tree of the
   source text quoted above it, with the offsets of that text.             *)

NoDoc == <<>>

StringArg(text) == [kind |-> "StringLiteral", text |-> text]

FunctionArg == [kind |-> "ArrowFunction", text |-> <<>>]

(* import { LoginPage } from '../page-objects/Login';
   test.describe('Suite', () => {
     test('logs in', async () => {});
   });                                                                     *)
SpecA ==
  [ src |-> [len |-> 121, nl |-> {50, 81, 116, 120}],
    imports |-> << [literal |-> TRUE, specifier |-> <<".",".","/","p","a","g","e","-","o","b","j","e","c","t","s","/","L","o","g","i","n">>,
                    names |-> <<<<"L","o","g","i","n","P","a","g","e">>>>] >>,
    nodes |-> <<
      [kind |-> "Call", parent |-> 0, slot |-> 0, start |-> 51, end |-> 119,
       callee |-> <<"t","e","s","t",".","d","e","s","c","r","i","b","e">>, calleeKind |-> "PropertyAccess",
       args |-> <<StringArg(<<"'","S","u","i","t","e","'">>), FunctionArg>>, comment |-> NoDoc, stmt |-> TRUE],
      [kind |-> "Call", parent |-> 1, slot |-> 2, start |-> 84, end |-> 115,
       callee |-> <<"t","e","s","t">>, calleeKind |-> "Identifier",
       args |-> <<StringArg(<<"'","l","o","g","s"," ","i","n","'">>), FunctionArg>>, comment |-> NoDoc, stmt |-> TRUE] >> ]

(* import { LoginPage, CartPage } from '../page-objects';
   import { x } from y;
   import { HomePage } from '../page-objects/Home';
   test('solo', async () => {});                                           *)
SpecB ==
  [ src |-> [len |-> 155, nl |-> {54, 75, 124, 154}],
    imports |-> << [literal |-> TRUE, specifier |-> <<".",".","/","p","a","g","e","-","o","b","j","e","c","t","s">>,
                    names |-> <<<<"L","o","g","i","n","P","a","g","e">>, <<"C","a","r","t","P","a","g","e">>>>],
                   [literal |-> FALSE, specifier |-> <<"y">>, names |-> <<<<"x">>>>],
                   [literal |-> TRUE, specifier |-> <<".",".","/","p","a","g","e","-","o","b","j","e","c","t","s","/","H","o","m","e">>,
                    names |-> <<<<"H","o","m","e","P","a","g","e">>>>] >>,
    nodes |-> <<
      [kind |-> "Call", parent |-> 0, slot |-> 0, start |-> 125, end |-> 153,
       callee |-> <<"t","e","s","t">>, calleeKind |-> "Identifier",
       args |-> <<StringArg(<<"'","s","o","l","o","'">>), FunctionArg>>, comment |-> NoDoc, stmt |-> TRUE] >> ]

(* import { CartPage } from '../page-objects/Cart';
   describe('Outer', () => {
     describe('Inner', () => {
       it('works', () => {});
     });
   });                                                                     *)
SpecC ==
  [ src |-> [len |-> 140, nl |-> {48, 74, 102, 129, 135, 139}],
    imports |-> << [literal |-> TRUE, specifier |-> <<".",".","/","p","a","g","e","-","o","b","j","e","c","t","s","/","C","a","r","t">>,
                    names |-> <<<<"C","a","r","t","P","a","g","e">>>>] >>,
    nodes |-> <<
      [kind |-> "Call", parent |-> 0, slot |-> 0, start |-> 49, end |-> 138,
       callee |-> <<"d","e","s","c","r","i","b","e">>, calleeKind |-> "Identifier",
       args |-> <<StringArg(<<"'","O","u","t","e","r","'">>), FunctionArg>>, comment |-> NoDoc, stmt |-> TRUE],
      [kind |-> "Call", parent |-> 1, slot |-> 2, start |-> 77, end |-> 134,
       callee |-> <<"d","e","s","c","r","i","b","e">>, calleeKind |-> "Identifier",
       args |-> <<StringArg(<<"'","I","n","n","e","r","'">>), FunctionArg>>, comment |-> NoDoc, stmt |-> TRUE],
      [kind |-> "Call", parent |-> 2, slot |-> 2, start |-> 107, end |-> 128,
       callee |-> <<"i","t">>, calleeKind |-> "Identifier",
       args |-> <<StringArg(<<"'","w","o","r","k","s","'">>), FunctionArg>>, comment |-> NoDoc, stmt |-> TRUE] >> ]

(* import { Locator, Page } from '@playwright/test';
   export class LoginPage {
     loginBtn: Locator;
     url: string;
     constructor(page: Page) {
       this.loginBtn = page.getByRole('button');
       this.url = '/login';
     }
     async clickLogin() { await this.loginBtn.click(); }
   }                                                                       *)
LoginPom ==
  [ src |-> [len |-> 270, nl |-> {49, 74, 95, 110, 138, 184, 209, 213, 267, 269}],
    imports |-> << [literal |-> TRUE, specifier |-> <<"@","p","l","a","y","w","r","i","g","h","t","/","t","e","s","t">>,
                    names |-> <<<<"L","o","c","a","t","o","r">>, <<"P","a","g","e">>>>] >>,
    nodes |-> <<
      [kind |-> "Class", parent |-> 0, start |-> 50, end |-> 269,
       name |-> <<"L","o","g","i","n","P","a","g","e">>, jsdoc |-> NoDoc],
      [kind |-> "Property", parent |-> 1, start |-> 77, end |-> 95,
       name |-> <<"l","o","g","i","n","B","t","n">>, type |-> <<"L","o","c","a","t","o","r">>,
       init |-> [present |-> FALSE, text |-> <<>>], jsdoc |-> NoDoc],
      [kind |-> "Property", parent |-> 1, start |-> 98, end |-> 110,
       name |-> <<"u","r","l">>, type |-> <<"s","t","r","i","n","g">>,
       init |-> [present |-> FALSE, text |-> <<>>], jsdoc |-> NoDoc],
      [kind |-> "Constructor", parent |-> 1, start |-> 113, end |-> 213,
       body |-> << [name |-> <<"l","o","g","i","n","B","t","n">>, value |-> <<"p","a","g","e",".","g","e","t","B","y","R","o","l","e","(","'","b","u","t","t","o","n","'",")">>,
                    start |-> 143, end |-> 184, nlBefore |-> 0, nlIn |-> 0],
                   [name |-> <<"u","r","l">>, value |-> <<"'","/","l","o","g","i","n","'">>,
                    start |-> 189, end |-> 209, nlBefore |-> 1, nlIn |-> 0] >>],
      [kind |-> "Method", parent |-> 1, start |-> 216, end |-> 267,
       name |-> <<"c","l","i","c","k","L","o","g","i","n">>,
       text |-> <<"a","s","y","n","c"," ","c","l","i","c","k","L","o","g","i","n","(",")"," ","{"," ","a","w","a","i","t"," ","t","h","i","s",".","l","o","g","i","n","B","t","n",".","c","l","i","c","k","(",")",";"," ","}">>,
       jsdoc |-> NoDoc] >> ]

(* function outer() {
     function inner() {}
   }
   class A {
     m() {}
   }
   const f = () => 1;                                                      *)
GenericA ==
  [ src |-> [len |-> 83, nl |-> {18, 40, 42, 52, 61, 63, 82}],
    imports |-> <<>>,
    nodes |-> <<
      [kind |-> "Function", parent |-> 0, start |-> 0, end |-> 42,
       name |-> <<"o","u","t","e","r">>, jsdoc |-> NoDoc],
      [kind |-> "Function", parent |-> 1, start |-> 21, end |-> 40,
       name |-> <<"i","n","n","e","r">>, jsdoc |-> NoDoc],
      [kind |-> "Class", parent |-> 0, start |-> 43, end |-> 63,
       name |-> <<"A">>, jsdoc |-> NoDoc],
      [kind |-> "Method", parent |-> 3, start |-> 55, end |-> 61,
       name |-> <<"m">>, text |-> <<"m","(",")"," ","{","}">>, jsdoc |-> NoDoc],
      [kind |-> "VarDecl", parent |-> 0, start |-> 70, end |-> 81,
       name |-> <<"f">>, init |-> "ArrowFunction", exported |-> FALSE] >> ]

ContentIds == {"SpecA", "SpecB", "SpecC", "LoginPom", "GenericA"}

\* the content with a given id, as project.createSourceFile parses it
SourceOf(id) ==
  CASE id = "SpecA" -> SpecA
    [] id = "SpecB" -> SpecB
    [] id = "SpecC" -> SpecC
    [] id = "LoginPom" -> LoginPom
    [] id = "GenericA" -> GenericA

\* a file that fs.readFileSync cannot read
Unreadable == "unreadable"

---------------------------------------------------------------------------
(* CodeParser: the operations on its state.  A parser state is
   [pageObjectToTests, testToPageObjects, rootDir]; a Map<string, Set<string>>
   is a function from its keys to the elements of the set in insertion order *)

NewParser == [pageObjectToTests |-> <<>>, testToPageObjects |-> <<>>, rootDir |-> <<>>]

Range(s) == {s[i] : i \in DOMAIN s}

\* if (!map.has(key)) map.set(key, new Set()); map.get(key).add(value)
MapAdd(map, key, value) ==
  IF key \in DOMAIN map
  THEN [map EXCEPT ![key] = IF value \in Range(@) THEN @ ELSE Append(@, value)]
  ELSE [k \in DOMAIN map \cup {key} |-> IF k = key THEN <<value>> ELSE map[k]]

\* named imports recorded in one direction only
RECURSIVE AddNamedImports_OneWay(_, _, _)
AddNamedImports_OneWay(this, namedImports, relativeTestPath) ==
  IF Len(namedImports) = 0 THEN this
  ELSE AddNamedImports_OneWay(
         [this EXCEPT !.pageObjectToTests = MapAdd(@, Head(namedImports), relativeTestPath)],
         Tail(namedImports), relativeTestPath)

\* the body of the loop over the named imports of one declaration
RECURSIVE AddNamedImports(_, _, _)
AddNamedImports(this, namedImports, relativeTestPath) ==
  IF Len(namedImports) = 0 THEN this
  ELSE LET className == Head(namedImports)
           added == [this EXCEPT
                       !.pageObjectToTests = MapAdd(@, className, relativeTestPath),
                       !.testToPageObjects = MapAdd(@, relativeTestPath, className)]
       IN  AddNamedImports(added, Tail(namedImports), relativeTestPath)

\* moduleSpecifier.includes('page-objects') || moduleSpecifier.includes('page-object')
IsPageObjectModule(moduleSpecifier) ==
  Includes(moduleSpecifier, <<"p","a","g","e","-","o","b","j","e","c","t","s">>) \/ Includes(moduleSpecifier, <<"p","a","g","e","-","o","b","j","e","c","t">>)

\* the loop over the import declarations; getModuleSpecifierValue() throws on a
\* module specifier that is not a string literal, which ends the loop
RECURSIVE AnalyzeDeclarations(_, _, _)
AnalyzeDeclarations(this, imports, relativeTestPath) ==
  IF Len(imports) = 0 THEN [this |-> this, threw |-> FALSE]
  ELSE LET importDecl == Head(imports)
       IN  IF ~importDecl.literal THEN [this |-> this, threw |-> TRUE]
           ELSE IF IsPageObjectModule(importDecl.specifier)
           THEN AnalyzeDeclarations(AddNamedImports(this, importDecl.names, relativeTestPath),
                                    Tail(imports), relativeTestPath)
           ELSE AnalyzeDeclarations(this, Tail(imports), relativeTestPath)

\* CodeParser.analyzeImportsForFile
analyzeImportsForFile(this, sf, testFilePath) ==
  AnalyzeDeclarations(this, sf.imports, getRelativePath(this.rootDir, testFilePath))

\* variant: the analysis of a test file starts from empty maps
AnalyzeTestFile_OnEmptyMaps(this, fsState, testFile) ==
  IF fsState[testFile] = Unreadable THEN [this |-> this, threw |-> TRUE]
  ELSE analyzeImportsForFile([this EXCEPT !.pageObjectToTests = <<>>,
                                          !.testToPageObjects = <<>>],
                             SourceOf(fsState[testFile]), testFile)

\* one iteration of the loop of analyzeImports: try { read, parse, analyze } catch { log }
AnalyzeTestFile(this, fsState, testFile) ==
  IF fsState[testFile] = Unreadable THEN [this |-> this, threw |-> TRUE]
  ELSE analyzeImportsForFile(this, SourceOf(fsState[testFile]), testFile)

\* a loop without the try/catch: the first failing file ends the analysis
RECURSIVE AnalyzeTestFiles_StopAtFailure(_, _, _, _)
AnalyzeTestFiles_StopAtFailure(this, fsState, testFiles, i) ==
  IF i > Len(testFiles) THEN [this |-> this, failed |-> {}]
  ELSE LET one == AnalyzeTestFile(this, fsState, testFiles[i])
       IN  IF one.threw THEN [this |-> one.this, failed |-> {i}]
           ELSE AnalyzeTestFiles_StopAtFailure(one.this, fsState, testFiles, i + 1)

RECURSIVE AnalyzeTestFiles(_, _, _, _)
AnalyzeTestFiles(this, fsState, testFiles, i) ==
  IF i > Len(testFiles) THEN [this |-> this, failed |-> {}]
  ELSE LET one == AnalyzeTestFile(this, fsState, testFiles[i])
           rest == AnalyzeTestFiles(one.this, fsState, testFiles, i + 1)
       IN  [this |-> rest.this,
            failed |-> (IF one.threw THEN {i} ELSE {}) \cup rest.failed]

\* CodeParser.analyzeImports: the parser state it leaves and the positions in
\* testFiles of the files whose analysis threw (each is caught and logged)
analyzeImports(this, fsState, testFiles, root) ==
  AnalyzeTestFiles([this EXCEPT !.rootDir = root], fsState, testFiles, 1)

\* a parseFile that records the file it parsed in the relationship graph
parseFile_RecordsFile(this, fsState, filePath, includeCode, projectType) ==
  [this |-> [this EXCEPT !.testToPageObjects = MapAdd(@, filePath, Basename(filePath))],
   threw |-> fsState[filePath] = Unreadable,
   chunks |-> <<>>]

\* CodeParser.parseFile: the parser state it leaves, whether it threw (the file
\* cannot be read) and the chunks it returns
parseFile(this, fsState, filePath, includeCode, projectType) ==
  IF fsState[filePath] = Unreadable
  THEN [this |-> this, threw |-> TRUE, chunks |-> <<>>]
  ELSE LET sf == SourceOf(fsState[filePath])
           root == IF ~Truthy(this.rootDir) THEN findRootDir(filePath) ELSE this.rootDir
       IN  [this |-> [this EXCEPT !.rootDir = root],
            threw |-> FALSE,
            chunks |-> ParsedChunks(sf, filePath, getRelativePath(root, filePath),
                                    includeCode, projectType, this.pageObjectToTests)]

---------------------------------------------------------------------------
(* The state: the file tree, the one CodeParser of a SemanticCodeIndexer, the
   position of a running index call with its locals, what index wrote to the
   console and returned, and the last call made on the parser directly      *)

VARIABLES
  fs,                 \* path of each file of the tree |-> id of its content
  pageObjectToTests,  \* CodeParser.pageObjectToTests
  testToPageObjects,  \* CodeParser.testToPageObjects
  rootDir,            \* CodeParser.rootDir
  pc,                 \* "idle", or the loop a running index call is in
  options,            \* the argument of the running index call
  files,              \* its local files
  testFiles,          \* its local testFiles
  ai,                 \* position of the loop of analyzeImports in testFiles
  fi,                 \* position of the loop of index in files
  allChunks,          \* its local allChunks
  log,                \* per file of the second loop: what the console reports
  done,               \* the index calls completed so far, oldest first
  edits,              \* number of changes made to the file tree
  lastCall,           \* the last direct call of a parser method
  calls,              \* number of direct calls made
  input,              \* the source file handed to an extraction method
  output              \* the chunks it returned

vars == <<fs, pageObjectToTests, testToPageObjects, rootDir, pc, options, files,
          testFiles, ai, fi, allChunks, log, done, edits, lastCall, calls,
          input, output>>

parserVars == <<pageObjectToTests, testToPageObjects, rootDir>>
indexVars == <<pc, options, files, testFiles, ai, fi, allChunks, log, done>>
directVars == <<lastCall, calls>>
pureVars == <<input, output>>

\* bounds of the exploration
MaxRuns == 2
MaxEdits == 1
MaxCalls == 3

\* the parser object as the operators above take it
This ==
  [pageObjectToTests |-> pageObjectToTests,
   testToPageObjects |-> testToPageObjects,
   rootDir |-> rootDir]

SetThis(this) ==
  /\ pageObjectToTests' = this.pageObjectToTests
  /\ testToPageObjects' = this.testToPageObjects
  /\ rootDir' = this.rootDir

\* the files of the tree that hold source code, and what they hold at first
SourcePaths == {p \in PathSet : Extname(p) \in Extensions}

InitialFs ==
  [p \in PathSet |->
     CASE p = <<"/","s","r","c","/","a",".","t","s">> -> "GenericA"
       [] p = <<"/","w","/","p","a","g","e","-","o","b","j","e","c","t","s","/","L","o","g","i","n",".","t","s">> -> "LoginPom"
       [] p = <<"/","w","/","t","e","s","t","s","/","a",".","s","p","e","c",".","t","s">> -> "SpecA"
       [] p = <<"/","w","/","t","e","s","t","s","/","b",".","s","p","e","c",".","t","s">> -> "SpecB"
       [] OTHER -> "GenericA"]

\* the files a caller hands to parseFile, and an edit rewrites: those a scan finds
ParsePaths == {p \in SourcePaths : p \in Range(scanDirectory(<<"/">>))}

\* what an edit can put in a file
EditContents == {Unreadable, "SpecC", "GenericA"}

NoOptions == [path |-> <<>>, target |-> <<>>, includeCode |-> FALSE, projectType |-> "angular"]
NoCall == [op |-> "none"]
NoInput == [kind |-> "none"]

InitTree == fs = InitialFs /\ edits = 0
InitParser == pageObjectToTests = <<>> /\ testToPageObjects = <<>> /\ rootDir = <<>>
InitIndexer ==
  /\ pc = "idle" /\ options = NoOptions /\ files = <<>> /\ testFiles = <<>>
  /\ ai = 1 /\ fi = 1 /\ allChunks = <<>> /\ log = <<>> /\ done = <<>>
InitDirect == lastCall = NoCall /\ calls = 0
NotRun ==
  [ran |-> FALSE, includeCode |-> FALSE, filePath |-> <<>>, projectType |-> "angular",
   chunks |-> <<>>]
InitPure == input = NoInput /\ output = NotRun

\* a file is rewritten, or made unreadable, while no call is running
EditFile(p, c) ==
  /\ pc = "idle"
  /\ edits < MaxEdits
  /\ fs[p] # c
  /\ fs' = [fs EXCEPT ![p] = c]
  /\ edits' = edits + 1
  /\ UNCHANGED <<parserVars, indexVars, directVars, pureVars>>

---------------------------------------------------------------------------
(* SemanticCodeIndexer.index, one step per loop iteration                  *)

BasePaths == {<<"/">>, <<"/","w">>}
Targets == {<<>>, <<"t","e","s","t","s">>}
ProjectTypes == {"angular", "playwright"}

OptionSet ==
  [path : BasePaths, target : Targets, includeCode : BOOLEAN, projectType : ProjectTypes]

\* const scanPath = target ? path.join(basePath, target) : basePath
ScanPath(o) == IF Truthy(o.target) THEN PathJoin(o.path, o.target) ELSE o.path

\* files.filter(f => f.endsWith('.spec.ts') || ... || f.includes('.setup-'))
IsTestFilePath(f) ==
  \/ EndsWith(f, <<".","s","p","e","c",".","t","s">>) \/ EndsWith(f, <<".","s","p","e","c",".","j","s">>)
  \/ EndsWith(f, <<".","a","p","i","-","s","p","e","c",".","t","s">>) \/ EndsWith(f, <<".","a","p","i","-","s","p","e","c",".","j","s">>)
  \/ Includes(f, <<".","s","e","t","u","p",".","t","s">>) \/ Includes(f, <<".","s","e","t","u","p",".","j","s">>)
  \/ Includes(f, <<".","s","e","t","u","p","-">>)

TestFilesOf(fileList) == SelectSeq(fileList, IsTestFilePath)

\* a first pass that is left after its first file
AnalysisDone_AfterFirstFile(i, list) == i > 1

\* whether the loop of analyzeImports has gone through all of testFiles
AnalysisDone(i, list) == i > Len(list)

\* variant: the chunks of a file are put before those of the files before it
PushChunks_InFront(chunks, parsed) == IF parsed.threw THEN chunks ELSE parsed.chunks \o chunks

\* allChunks after the try/catch around one parseFile call
PushChunks(chunks, parsed) == IF parsed.threw THEN chunks ELSE chunks \o parsed.chunks

\* a loop over files without the try/catch: the first throw ends it
LoopContinues_UntilThrow(parsed) == ~parsed.threw

\* whether the loop over files goes on after a parseFile call
LoopContinues(parsed) == TRUE

\* scanDirectory throws (the scan path does not exist): index throws
IndexScanFails(o) ==
  /\ pc = "idle"
  /\ Len(done) < MaxRuns
  /\ StatThrows(ScanPath(o))
  /\ done' = Append(done, [options |-> o, fs |-> fs, threw |-> TRUE, result |-> <<>>,
                           log |-> <<>>, files |-> <<>>])
  /\ UNCHANGED <<fs, edits, parserVars, pc, options, files, testFiles, ai, fi,
                 allChunks, log, directVars, pureVars>>

\* index up to the first iteration of a loop: the scan, and for playwright the
\* filter and the first statement of analyzeImports
IndexBegin(o) ==
  /\ pc = "idle"
  /\ Len(done) < MaxRuns
  /\ ~StatThrows(ScanPath(o))
  /\ LET scanned == scanDirectory(ScanPath(o))
         tests == IF o.projectType = "playwright" THEN TestFilesOf(scanned) ELSE <<>>
     IN  /\ options' = o
         /\ files' = scanned
         /\ testFiles' = tests
         /\ rootDir' = IF o.projectType = "playwright" THEN o.path ELSE rootDir
         /\ pc' = IF o.projectType = "playwright" /\ ~AnalysisDone(1, tests)
                  THEN "analyze" ELSE "parse"
  /\ ai' = 1 /\ fi' = 1 /\ allChunks' = <<>> /\ log' = <<>>
  /\ UNCHANGED <<fs, edits, pageObjectToTests, testToPageObjects, done,
                 directVars, pureVars>>

\* one iteration of the loop of analyzeImports
IndexAnalyze ==
  /\ pc = "analyze"
  /\ ai <= Len(testFiles)
  /\ SetThis(AnalyzeTestFile(This, fs, testFiles[ai]).this)
  /\ ai' = ai + 1
  /\ pc' = IF AnalysisDone(ai + 1, testFiles) THEN "parse" ELSE "analyze"
  /\ UNCHANGED <<fs, edits, options, files, testFiles, fi, allChunks, log, done,
                 directVars, pureVars>>

\* one iteration of the loop over files
IndexParse ==
  /\ pc = "parse"
  /\ fi <= Len(files)
  /\ LET parsed == parseFile(This, fs, files[fi], options.includeCode, options.projectType)
     IN  /\ SetThis(parsed.this)
         /\ allChunks' = PushChunks(allChunks, parsed)
         /\ log' = Append(log, [file |-> files[fi], threw |-> parsed.threw,
                                extracted |-> Len(parsed.chunks)])
         /\ fi' = IF LoopContinues(parsed) THEN fi + 1 ELSE Len(files) + 1
  /\ UNCHANGED <<fs, edits, pc, options, files, testFiles, ai, done,
                 directVars, pureVars>>

\* return allChunks
IndexReturn ==
  /\ pc = "parse"
  /\ fi > Len(files)
  /\ done' = Append(done, [options |-> options, fs |-> fs, threw |-> FALSE,
                           result |-> allChunks, log |-> log, files |-> files])
  /\ pc' = "idle"
  /\ UNCHANGED <<fs, edits, parserVars, options, files, testFiles, ai, fi,
                 allChunks, log, directVars, pureVars>>

Init == InitTree /\ InitParser /\ InitIndexer /\ InitDirect /\ InitPure

Next ==
  \/ \E o \in OptionSet : IndexScanFails(o)
  \/ \E o \in OptionSet : IndexBegin(o)
  \/ IndexAnalyze
  \/ IndexParse
  \/ IndexReturn
  \/ \E p \in ParsePaths, c \in EditContents : EditFile(p, c)

Spec == Init /\ [][Next]_vars

---------------------------------------------------------------------------
(* The two public methods of CodeParser called directly                    *)

TestPaths == {p \in SourcePaths : IsTestFilePath(p)}

\* the lists of test files a caller hands to analyzeImports
MaxList == 2
TestFileLists ==
  {l \in UNION {[1..n -> TestPaths] : n \in 0..MaxList} :
     \A i, j \in DOMAIN l : i # j => l[i] # l[j]}

AnalyzeImports(list, root) ==
  /\ calls < MaxCalls
  /\ LET r == analyzeImports(This, fs, list, root)
     IN  /\ SetThis(r.this)
         /\ lastCall' = [op |-> "analyzeImports", testFiles |-> list, rootDir |-> root,
                         fs |-> fs, before |-> This, failed |-> r.failed]
  /\ calls' = calls + 1
  /\ UNCHANGED <<fs, edits, indexVars, pureVars>>

ParseFile(filePath, includeCode, projectType) ==
  /\ calls < MaxCalls
  /\ LET r == parseFile(This, fs, filePath, includeCode, projectType)
     IN  /\ SetThis(r.this)
         /\ lastCall' = [op |-> "parseFile", filePath |-> filePath,
                         includeCode |-> includeCode, projectType |-> projectType,
                         fs |-> fs, before |-> This, threw |-> r.threw,
                         chunks |-> r.chunks]
  /\ calls' = calls + 1
  /\ UNCHANGED <<fs, edits, indexVars, pureVars>>

NextParser ==
  \/ \E list \in TestFileLists, root \in BasePaths : AnalyzeImports(list, root)
  \/ \E p \in ParsePaths, c \in BOOLEAN, t \in ProjectTypes : ParseFile(p, c, t)
  \/ \E p \in ParsePaths, c \in EditContents : EditFile(p, c)

SpecParser == Init /\ [][NextParser]_vars

---------------------------------------------------------------------------
(* Source files for the extraction methods: every tree of at most MaxNodes
   nodes over a few node shapes, written one node per line.  A node without
   children takes one line; a node with children opens on its line and
   closes on a line of its own after its last descendant.                  *)

MaxNodes == 3
LineWidth == 12
Indent == 2

\* the ancestors of node i in a tree given by the parent of each node
RECURSIVE AncestorsOf(_, _)
AncestorsOf(par, i) ==
  IF par[i] = 0 THEN {} ELSE {par[i]} \cup AncestorsOf(par, par[i])

\* the trees of n nodes numbered in document order
ParentArrays(n) ==
  {par \in [1..n -> 0..n] :
     \A i \in 1..n :
       /\ par[i] < i
       /\ i > 1 => par[i] \in {0, i - 1} \cup AncestorsOf(par, i - 1)}

DescendantsOf(par, i) == {d \in DOMAIN par : i \in AncestorsOf(par, d)}

\* the lines node j takes for itself
OwnLines(par, j) == IF DescendantsOf(par, j) = {} THEN 1 ELSE 2

RECURSIVE SumOwnLines(_, _)
SumOwnLines(par, S) ==
  IF S = {} THEN 0
  ELSE LET j == Min(S) IN OwnLines(par, j) + SumOwnLines(par, S \ {j})

\* the 1-based line on which node i starts
OpenLine(par, i) ==
  1 + Cardinality(AncestorsOf(par, i))
    + SumOwnLines(par, {j \in 1..(i - 1) : j \notin AncestorsOf(par, i)})

\* the 1-based line on which node i ends
CloseLine(par, i) ==
  IF DescendantsOf(par, i) = {} THEN OpenLine(par, i)
  ELSE OpenLine(par, i) + SumOwnLines(par, DescendantsOf(par, i)) + 1

\* the offsets of node i: it starts after its indentation; a one-line node
\* ends at the end of its line, a longer one with the bracket that closes it
StartOf(par, i) ==
  (OpenLine(par, i) - 1) * LineWidth + Indent * Cardinality(AncestorsOf(par, i))

EndOf(par, i) ==
  IF DescendantsOf(par, i) = {} THEN OpenLine(par, i) * LineWidth - 1
  ELSE (CloseLine(par, i) - 1) * LineWidth + Indent * Cardinality(AncestorsOf(par, i)) + 1

\* the text: lines of LineWidth characters, the last of which is the newline
SourceText(par) ==
  LET lines == SumOwnLines(par, DOMAIN par)
  IN  [len |-> lines * LineWidth, nl |-> {l * LineWidth - 1 : l \in 1..lines}]

\* the calls of a test file
CallShapes ==
  { [callee |-> <<"t","e","s","t",".","d","e","s","c","r","i","b","e">>, calleeKind |-> "PropertyAccess",
     args |-> <<StringArg(<<"'","S","u","i","t","e","'">>), FunctionArg>>],
    [callee |-> <<"d","e","s","c","r","i","b","e">>, calleeKind |-> "Identifier",
     args |-> <<StringArg(<<"'","T","a","g","g","e","d","'">>), [kind |-> "ObjectLiteral", text |-> <<>>], FunctionArg>>],
    [callee |-> <<"d","e","s","c","r","i","b","e">>, calleeKind |-> "Identifier",
     args |-> <<FunctionArg>>],
    [callee |-> <<"t","e","s","t">>, calleeKind |-> "Identifier",
     args |-> <<StringArg(<<"'","w","o","r","k","s","'">>), FunctionArg>>],
    [callee |-> <<"t","e","s","t",".","o","n","l","y">>, calleeKind |-> "PropertyAccess",
     args |-> <<StringArg(<<"\"","r","u","n","s","\"">>), FunctionArg>>],
    [callee |-> <<"i","t">>, calleeKind |-> "Identifier",
     args |-> <<StringArg(<<"'","B","e","f","o","r","e","E","a","c","h"," ","s","e","t","s"," ","u","p","'">>), FunctionArg>>],
    [callee |-> <<"t","e","s","t">>, calleeKind |-> "Identifier",
     args |-> <<StringArg(<<"'","a","f","t","e","r"," ","l","o","g","i","n","'">>), FunctionArg>>],
    [callee |-> <<"t","e","s","t">>, calleeKind |-> "Identifier",
     args |-> <<StringArg(<<"'","'">>), FunctionArg>>] }

\* a call lies in the callback of its parent call: its last argument
CallNode(par, shapes, i) ==
  [kind |-> "Call", parent |-> par[i],
   slot |-> IF par[i] = 0 THEN 0 ELSE Len(shapes[par[i]].args),
   start |-> StartOf(par, i), end |-> EndOf(par, i),
   callee |-> shapes[i].callee, calleeKind |-> shapes[i].calleeKind,
   args |-> shapes[i].args, comment |-> NoDoc, stmt |-> TRUE]

TestFile(par, shapes) ==
  [src |-> SourceText(par), imports |-> <<>>,
   nodes |-> [i \in DOMAIN par |-> CallNode(par, shapes, i)]]

\* the declarations of a source file
DeclShapes ==
  { [kind |-> "Function", name |-> <<"f">>, jsdoc |-> NoDoc],
    [kind |-> "Class", name |-> <<"A">>, jsdoc |-> NoDoc],
    [kind |-> "Method", name |-> <<"m">>, text |-> <<"m","(",")"," ","{","}">>, jsdoc |-> NoDoc],
    [kind |-> "VarDecl", name |-> <<"g">>, init |-> "ArrowFunction", exported |-> FALSE],
    [kind |-> "VarDecl", name |-> <<"k">>, init |-> "NumericLiteral", exported |-> FALSE] }

\* a method is a member of a class, a class has no other members here, and
\* only a function, a method or an arrow function has a body to nest in
WellNested(par, shapes) ==
  \A i \in DOMAIN par :
    /\ shapes[i].kind = "Method" <=> (par[i] # 0 /\ shapes[par[i]].kind = "Class")
    /\ par[i] # 0 => shapes[par[i]].kind \in {"Function", "Class", "Method", "VarDecl"}
    /\ par[i] # 0 /\ shapes[par[i]].kind = "VarDecl" => shapes[par[i]].init = "ArrowFunction"

DeclNode(par, shapes, i) ==
  [f \in DOMAIN shapes[i] \cup {"parent", "start", "end"} |->
     CASE f = "parent" -> par[i]
       [] f = "start" -> StartOf(par, i)
       [] f = "end" -> EndOf(par, i)
       [] OTHER -> shapes[i][f]]

DeclFile(par, shapes) ==
  [src |-> SourceText(par), imports |-> <<>>,
   nodes |-> [i \in DOMAIN par |-> DeclNode(par, shapes, i)]]

---------------------------------------------------------------------------
(* Object files that declare classes: every tree of at most MaxClassNodes
   nodes in which a class holds properties, at most one constructor and
   methods, and a constructor holds the statements of its body, written one
   node per line as above.                                                 *)

MaxClassNodes == 4

NoInitializer == [present |-> FALSE, text |-> <<>>]

Initializer(text) == [present |-> TRUE, text |-> text]

ClassShapes ==
  { [kind |-> "Class", name |-> <<"L","o","g","i","n","P","a","g","e">>, jsdoc |-> NoDoc],
    [kind |-> "Class", name |-> <<"C","a","r","t","P","a","g","e">>, jsdoc |-> NoDoc] }

MemberShapes ==
  { [kind |-> "Property", name |-> <<"b","t","n">>, type |-> <<"L","o","c","a","t","o","r">>,
     init |-> NoInitializer, jsdoc |-> NoDoc],
    [kind |-> "Property", name |-> <<"l","i","n","k">>, type |-> <<"L","o","c","a","t","o","r">>,
     init |-> Initializer(<<"p","a","g","e",".","g","e","t","B","y","R","o","l","e","(","'","l","i","n","k","'",")">>), jsdoc |-> NoDoc],
    [kind |-> "Property", name |-> <<"u","r","l">>, type |-> <<"s","t","r","i","n","g">>,
     init |-> NoInitializer, jsdoc |-> NoDoc],
    [kind |-> "Property", name |-> <<"r","e","t","r","i","e","s">>, type |-> <<"n","u","m","b","e","r">>,
     init |-> Initializer(<<"3">>), jsdoc |-> NoDoc],
    [kind |-> "Constructor"],
    [kind |-> "Method", name |-> <<"c","l","i","c","k","L","o","g","i","n">>,
     text |-> <<"c","l","i","c","k","L","o","g","i","n","(",")"," ","{"," ","t","h","i","s",".","b","t","n",".","c","l","i","c","k","(",")",";"," ","}">>, jsdoc |-> NoDoc],
    [kind |-> "Method", name |-> <<"v","e","r","i","f","y","T","i","t","l","e">>,
     text |-> <<"v","e","r","i","f","y","T","i","t","l","e","(",")"," ","{"," ","e","x","p","e","c","t","(","t","h","i","s",".","t",")",".","t","o","B","e","(","1",")",";"," ","}">>, jsdoc |-> NoDoc],
    [kind |-> "Method", name |-> <<"t","i","t","l","e">>,
     text |-> <<"t","i","t","l","e","(",")"," ","{"," ","r","e","t","u","r","n"," ","t","h","i","s",".","t",";"," ","}">>, jsdoc |-> NoDoc],
    [kind |-> "Method", name |-> <<"r","u","n">>,
     text |-> <<"r","u","n","(",")"," ","{"," ","e","x","p","e","c","t","(","1",")",".","t","o","B","e","(","1",")",";"," ","}">>, jsdoc |-> NoDoc] }

\* the statements this.<name> = <value>; of a constructor body
AssignShapes ==
  { [kind |-> "Assign", name |-> <<"b","t","n">>, value |-> <<"p","a","g","e",".","l","o","c","a","t","o","r","(","'","#","b","'",")">>],
    [kind |-> "Assign", name |-> <<"b","t","n">>, value |-> <<"m","a","k","e","B","u","t","t","o","n","(","p","a","g","e",")">>],
    [kind |-> "Assign", name |-> <<"u","r","l">>, value |-> <<"'","/","l","o","g","i","n","'">>] }

\* the shapes a node may have under a parent of the given kind
ShapesUnder(kind) ==
  CASE kind = "File" -> ClassShapes
    [] kind = "Class" -> MemberShapes
    [] kind = "Constructor" -> AssignShapes
    [] OTHER -> {}

\* shape x fits as node i after the shapes s of the nodes before it: a class
\* has one constructor at most, and classes, and the properties and the
\* methods of one class, differ in their names
FitsAfter(par, s, x, i) ==
  \A j \in 1..(i - 1) :
    (par[j] = par[i] /\ s[j].kind = x.kind) =>
      /\ x.kind # "Constructor"
      /\ x.kind \in {"Class", "Property", "Method"} => s[j].name # x.name

RECURSIVE ShapeSeqs(_, _)
ShapeSeqs(par, i) ==
  IF i = 0 THEN {<<>>}
  ELSE UNION { { Append(s, x) :
                   x \in {y \in ShapesUnder(IF par[i] = 0 THEN "File" ELSE s[par[i]].kind) :
                            FitsAfter(par, s, y, i)} } :
               s \in ShapeSeqs(par, i - 1) }

\* constructor.getBodyText() begins with the first statement: a statement is
\* preceded by as many newlines as there are lines from that one to its own
BodyOf(par, shapes, i) ==
  LET stmts == SortedSeq({d \in DOMAIN par : par[d] = i})
  IN  [k \in 1..Len(stmts) |->
         [name |-> shapes[stmts[k]].name,
          value |-> shapes[stmts[k]].value,
          start |-> StartOf(par, stmts[k]),
          end |-> EndOf(par, stmts[k]),
          nlBefore |-> OpenLine(par, stmts[k]) - OpenLine(par, stmts[1]),
          nlIn |-> 0]]

ClassFileNode(par, shapes, i) ==
  [f \in DOMAIN shapes[i] \cup {"parent", "start", "end"}
           \cup (IF shapes[i].kind = "Constructor" THEN {"body"} ELSE {}) |->
     CASE f = "parent" -> par[i]
       [] f = "start" -> StartOf(par, i)
       [] f = "end" -> EndOf(par, i)
       [] f = "body" -> BodyOf(par, shapes, i)
       [] OTHER -> shapes[i][f]]

ClassFile(par, shapes) ==
  [src |-> SourceText(par), imports |-> <<>>,
   nodes |-> [i \in DOMAIN par |-> ClassFileNode(par, shapes, i)]]

---------------------------------------------------------------------------
(* Files without a class: every tree of at most MaxStatements nodes whose
   statements are function and variable declarations and calls; a describe
   call holds calls in its callback and a test.extend call holds the
   properties of its object literal.                                       *)

MaxStatements == 3

StatementShapes ==
  { [kind |-> "Function", name |-> <<"f">>, jsdoc |-> NoDoc],
    [kind |-> "VarDecl", name |-> <<"C","O","N","F","I","G">>, init |-> "ObjectLiteral", exported |-> TRUE],
    [kind |-> "VarDecl", name |-> <<"k">>, init |-> "NumericLiteral", exported |-> FALSE],
    [kind |-> "Call", callee |-> <<"s","e","t","u","p">>, calleeKind |-> "Identifier",
     args |-> <<StringArg(<<"'","a","u","t","h","'">>), FunctionArg>>, comment |-> NoDoc, stmt |-> TRUE],
    [kind |-> "Call", callee |-> <<"t","e","s","t",".","e","x","t","e","n","d">>, calleeKind |-> "PropertyAccess",
     args |-> <<[kind |-> "ObjectLiteral", text |-> <<>>]>>, comment |-> NoDoc, stmt |-> TRUE],
    [kind |-> "Call", callee |-> <<"(","(",")"," ","=",">"," ","{","}",")">>, calleeKind |-> "ParenthesizedFunction",
     args |-> <<>>, comment |-> NoDoc, stmt |-> TRUE],
    [kind |-> "Call", callee |-> <<"d","e","s","c","r","i","b","e">>, calleeKind |-> "Identifier",
     args |-> <<StringArg(<<"'","S","u","i","t","e","'">>), FunctionArg>>, comment |-> NoDoc, stmt |-> TRUE],
    [kind |-> "Call", callee |-> <<"t","e","s","t">>, calleeKind |-> "Identifier",
     args |-> <<StringArg(<<"'","w","o","r","k","s","'">>), FunctionArg>>, comment |-> NoDoc, stmt |-> TRUE],
    [kind |-> "Call", callee |-> <<"t","e","s","t">>, calleeKind |-> "Identifier",
     args |-> <<StringArg(<<"'","a","f","t","e","r"," ","l","o","g","i","n","'">>), FunctionArg>>, comment |-> NoDoc, stmt |-> TRUE] }

FixtureShapes ==
  { [kind |-> "PropAssign", name |-> <<"p","a","g","e">>] }

\* the shapes a node may have under the given parent shape
StatementsUnder(parent) ==
  IF parent.kind = "File" THEN StatementShapes
  ELSE IF parent.kind # "Call" THEN {}
  ELSE IF parent.callee = <<"t","e","s","t",".","e","x","t","e","n","d">> THEN FixtureShapes
  ELSE IF parent.callee = <<"d","e","s","c","r","i","b","e">>
       THEN {x \in StatementShapes :
               x.kind = "Call" /\ x.callee \in {<<"t","e","s","t">>, <<"s","e","t","u","p">>}}
  ELSE {}

RECURSIVE StatementSeqs(_, _)
StatementSeqs(par, i) ==
  IF i = 0 THEN {<<>>}
  ELSE UNION { { Append(s, x) :
                   x \in StatementsUnder(IF par[i] = 0 THEN [kind |-> "File"] ELSE s[par[i]]) } :
               s \in StatementSeqs(par, i - 1) }

\* a node under a call lies in the last argument of the call
StatementNode(par, shapes, i) ==
  [f \in DOMAIN shapes[i] \cup {"parent", "slot", "start", "end"} |->
     CASE f = "parent" -> par[i]
       [] f = "slot" -> IF par[i] = 0 THEN 0 ELSE Len(shapes[par[i]].args)
       [] f = "start" -> StartOf(par, i)
       [] f = "end" -> EndOf(par, i)
       [] OTHER -> shapes[i][f]]

StatementFile(par, shapes) ==
  [src |-> SourceText(par), imports |-> <<>>,
   nodes |-> [i \in DOMAIN par |-> StatementNode(par, shapes, i)]]

---------------------------------------------------------------------------
(* parseFile on one source file, from the creation of the source file on:
   the profile and the file name select the extraction method              *)

TestFilePath == <<"/","w","/","t","e","s","t","s","/","x",".","s","p","e","c",".","t","s">>
DeclFilePath == <<"/","w","/","s","r","c","/","x",".","t","s">>
ExtractRoot == <<"/","w">>

\* parseFile(filePath, includeCode, projectType) on the source file input.sf
Extract(kind, filePath, includeCode, projectType) ==
  /\ input.kind = kind
  /\ ~output.ran
  /\ output' = [ran |-> TRUE, includeCode |-> includeCode, filePath |-> filePath,
                projectType |-> projectType,
                chunks |-> ParsedChunks(input.sf, filePath,
                                        getRelativePath(ExtractRoot, filePath),
                                        includeCode, projectType, pageObjectToTests)]
  /\ UNCHANGED <<fs, edits, parserVars, indexVars, directVars, input>>

InitTests ==
  /\ InitTree /\ InitParser /\ InitIndexer /\ InitDirect
  /\ \E n \in 1..MaxNodes :
       \E par \in ParentArrays(n), shapes \in [1..n -> CallShapes] :
         input = [kind |-> "tests", sf |-> TestFile(par, shapes)]
  /\ output = NotRun

NextTests == \E c \in BOOLEAN : Extract("tests", TestFilePath, c, "playwright")

SpecTests == InitTests /\ [][NextTests]_vars

InitGeneric ==
  /\ InitTree /\ InitParser /\ InitIndexer /\ InitDirect
  /\ \E n \in 1..MaxNodes :
       \E par \in ParentArrays(n), shapes \in [1..n -> DeclShapes] :
         /\ WellNested(par, shapes)
         /\ input = [kind |-> "generic", sf |-> DeclFile(par, shapes)]
  /\ output = NotRun

NextGeneric == \E c \in BOOLEAN : Extract("generic", DeclFilePath, c, "angular")

SpecGeneric == InitGeneric /\ [][NextGeneric]_vars


ObjectFilePath == <<"/","w","/","p","a","g","e","-","o","b","j","e","c","t","s","/","x",".","t","s">>

InitClasses ==
  /\ InitTree /\ InitParser /\ InitIndexer /\ InitDirect
  /\ \E n \in 1..MaxClassNodes :
       \E par \in ParentArrays(n) :
         \E shapes \in ShapeSeqs(par, n) :
           input = [kind |-> "classes", sf |-> ClassFile(par, shapes)]
  /\ output = NotRun

NextClasses == \E c \in BOOLEAN : Extract("classes", ObjectFilePath, c, "playwright")

SpecClasses == InitClasses /\ [][NextClasses]_vars

InitStatements ==
  /\ InitTree /\ InitParser /\ InitIndexer /\ InitDirect
  /\ \E n \in 1..MaxStatements :
       \E par \in ParentArrays(n) :
         \E shapes \in StatementSeqs(par, n) :
           input = [kind |-> "statements", sf |-> StatementFile(par, shapes)]
  /\ output = NotRun

\* the same text parsed as an object file and as a test file
NextStatements ==
  \E c \in BOOLEAN :
    \/ Extract("statements", ObjectFilePath, c, "playwright")
    \/ Extract("statements", TestFilePath, c, "playwright")

SpecStatements == InitStatements /\ [][NextStatements]_vars

SetupFilePath == <<"/","w","/","t","e","s","t","s","/","a","u","t","h",".","s","e","t","u","p",".","t","s">>
ApiSpecFilePath == <<"/","w","/","t","e","s","t","s","/","x",".","a","p","i","-","s","p","e","c",".","j","s">>
PlainFilePath == <<"/","w","/","t","e","s","t","s","/","s","p","e","c",".","t","s">>

\* the paths under which one text is parsed
DispatchPaths == {ObjectFilePath, TestFilePath, SetupFilePath, ApiSpecFilePath, PlainFilePath}

InitDispatch ==
  /\ InitTree /\ InitParser /\ InitIndexer /\ InitDirect
  /\ \/ \E n \in 1..MaxStatements :
          \E par \in ParentArrays(n) :
            \E shapes \in StatementSeqs(par, n) :
              input = [kind |-> "any", sf |-> StatementFile(par, shapes)]
     \/ \E n \in 1..MaxClassNodes :
          \E par \in ParentArrays(n) :
            \E shapes \in ShapeSeqs(par, n) :
              input = [kind |-> "any", sf |-> ClassFile(par, shapes)]
  /\ output = NotRun

\* one text under every path of the specialized profile, and under two paths
\* of the generic profile
NextDispatch ==
  \E c \in BOOLEAN :
    \/ \E p \in DispatchPaths : Extract("any", p, c, "playwright")
    \/ \E p \in {ObjectFilePath, TestFilePath} : Extract("any", p, c, "angular")

SpecDispatch == InitDispatch /\ [][NextDispatch]_vars

---------------------------------------------------------------------------
(* A specialized run of index over a tree that holds one file, and a first
   parseFile call on a parser that has no root yet: the root, the relative
   path of the file and what follows from its name                         *)

\* the places a file is found at
LocatedPaths ==
  { <<"/","w","/","s","r","c","/","a","p","p","/","x",".","t","s">>, <<"/","w","/","p","r","o","j","e","c","t","s","/","s","h","o","p","/","t","e","s","t","s","/","x",".","s","p","e","c",".","t","s">>,
    <<"/","w","/","r","e","p","o","s","/","s","h","o","p","/","p","a","g","e","-","o","b","j","e","c","t","s","/","x",".","t","s">>, <<"/","w","/","l","i","b","/","x",".","t","s">>,
    <<"/","w","/","t","e","s","t","s","/","x",".","s","p","e","c",".","t","s">>, <<"/","w","/","t","e","s","t","s","/","a","u","t","h",".","s","e","t","u","p",".","t","s">>,
    <<"/","w","/","t","e","s","t","s","/","x",".","s","e","t","u","p","H","e","l","p","e","r",".","t","s">>, <<"/","w","/","m","y",".","s","e","t","u","p","-","f","i","l","e","s","/","x",".","t","s">>,
    <<"/","w","/","e","2","e","/","x",".","a","p","i","-","s","p","e","c",".","j","s">> }

\* the texts found there: up to MaxLocatedNodes statements or class nodes
MaxLocatedNodes == 2

LocatedFiles ==
  UNION { UNION { { StatementFile(par, shapes) : shapes \in StatementSeqs(par, n) } :
                  par \in ParentArrays(n) } : n \in 1..MaxLocatedNodes }
  \cup
  UNION { UNION { { ClassFile(par, shapes) : shapes \in ShapeSeqs(par, n) } :
                  par \in ParentArrays(n) } : n \in 1..MaxLocatedNodes }

InitLocated ==
  /\ InitTree /\ InitParser /\ InitIndexer /\ InitDirect
  /\ \E sf \in LocatedFiles : input = [kind |-> "located", sf |-> sf]
  /\ output = NotRun

\* index({path: basePath, projectType: 'playwright'}) up to its second loop:
\* the scan found filePath alone, the filter selected the test files and
\* analyzeImports took basePath as root (the text has no import declaration,
\* so the analysis adds no edge)
LocatedIndexBegin(basePath, filePath) ==
  /\ input.kind = "located"
  /\ files = <<>>
  /\ ~output.ran
  /\ files' = <<filePath>>
  /\ testFiles' = TestFilesOf(<<filePath>>)
  /\ rootDir' = basePath
  /\ UNCHANGED <<fs, edits, pageObjectToTests, testToPageObjects, pc, options, ai, fi,
                 allChunks, log, done, directVars, pureVars>>

\* parseFile(filePath, includeCode, 'playwright') on the text: the root is
\* set when the parser has none, and the chunks carry the relative path
LocatedParse(filePath, includeCode) ==
  /\ input.kind = "located"
  /\ ~output.ran
  /\ files # <<>> => filePath = files[1]
  /\ LET root == IF ~Truthy(rootDir) THEN findRootDir(filePath) ELSE rootDir
     IN  /\ rootDir' = root
         /\ output' = [ran |-> TRUE, includeCode |-> includeCode, filePath |-> filePath,
                       projectType |-> "playwright",
                       chunks |-> ParsedChunks(input.sf, filePath,
                                               getRelativePath(root, filePath),
                                               includeCode, "playwright",
                                               pageObjectToTests)]
  /\ UNCHANGED <<fs, edits, pageObjectToTests, testToPageObjects, indexVars,
                 directVars, input>>

NextLocated ==
  \/ \E b \in BasePaths, p \in LocatedPaths : LocatedIndexBegin(b, p)
  \/ \E p \in LocatedPaths, c \in BOOLEAN : LocatedParse(p, c)

SpecLocated == InitLocated /\ [][NextLocated]_vars
---------------------------------------------------------------------------
(* Properties of SemanticCodeIndexer.index                                 *)

RECURSIVE SumExtracted(_, _)
SumExtracted(entries, i) ==
  IF i > Len(entries) THEN 0
  ELSE (IF entries[i].threw THEN 0 ELSE entries[i].extracted) + SumExtracted(entries, i + 1)

(* C2: in a playwright run the relationship analysis has gone through every
   test file before the first file is classified, and from then on the run
   adds no edge to the relationship graph.                                 *)
C2_AnalysisBeforeClassification ==
  /\ [](pc = "parse" /\ options.projectType = "playwright" => ai > Len(testFiles))
  /\ [][pc = "parse" => UNCHANGED <<pageObjectToTests, testToPageObjects>>]_vars

\* a playwright run that found edges has classified its first file
C2_Witness ==
  /\ pc = "parse"
  /\ options.projectType = "playwright"
  /\ Len(testFiles) = 2
  /\ fi > 1
  /\ DOMAIN pageObjectToTests # {}

(* C5: an index call that got past the scan returns; every scanned file was
   handed to parseFile in scan order, a file that parseFile threw on added no
   chunk, and the files after it added theirs: the result has exactly the
   chunks extracted from the files that did not throw.                     *)
C5_IndexSurvivesFailingFile ==
  \A k \in DOMAIN done :
    LET r == done[k]
    IN  ~r.threw =>
          /\ Len(r.log) = Len(r.files)
          /\ \A i \in DOMAIN r.files :
               /\ r.log[i].file = r.files[i]
               /\ r.log[i].threw = (r.fs[r.files[i]] = Unreadable)
          /\ Len(r.result) = SumExtracted(r.log, 1)

\* a completed run in which a file threw and a later file contributed chunks
C5_Witness ==
  \E k \in DOMAIN done :
    \E i, j \in DOMAIN done[k].log :
      /\ i < j
      /\ done[k].log[i].threw
      /\ ~done[k].log[j].threw
      /\ done[k].log[j].extracted > 0
      /\ Len(done[k].result) > 0

(* C8: two index calls with the same options over the same file tree return
   the same chunk list, whatever state the earlier calls left in the parser. *)
C8_Idempotent ==
  \A i, j \in DOMAIN done :
    (/\ i < j
     /\ done[i].options = done[j].options
     /\ done[i].fs = done[j].fs
     /\ ~done[i].threw /\ ~done[j].threw)
    => done[i].result = done[j].result

\* two such calls returned chunks for the same files under different file paths
C8_Witness ==
  \E i, j \in DOMAIN done :
    /\ i < j
    /\ done[i].options = done[j].options
    /\ done[i].fs = done[j].fs
    /\ Len(done[i].result) = Len(done[j].result)
    /\ Len(done[i].result) > 0
    /\ done[i].result[1].filePath # done[j].result[1].filePath

---------------------------------------------------------------------------
(* Properties of the relationship graph                                    *)

\* the edges a pair of maps holds, read from each side
PageObjectEdges(this) ==
  UNION {{<<c, t>> : t \in Range(this.pageObjectToTests[c])} : c \in DOMAIN this.pageObjectToTests}

TestEdges(this) ==
  UNION {{<<c, t>> : c \in Range(this.testToPageObjects[t])} : t \in DOMAIN this.testToPageObjects}

(* C1: the relationship graph is symmetric: a test file is in the set of a
   page-object name exactly when that name is in the set of the test file. *)
C1_GraphSymmetric == PageObjectEdges(This) = TestEdges(This)

\* a graph with a page object imported by two test files
C1_Witness ==
  /\ lastCall.op = "analyzeImports"
  /\ \E c \in DOMAIN pageObjectToTests : Len(pageObjectToTests[c]) = 2
  /\ Cardinality(DOMAIN testToPageObjects) >= 2

(* C3: parseFile leaves both maps of the relationship graph as they were,
   whatever the file, the project type and the includeCode flag.           *)
C3_ParseFileKeepsGraph ==
  lastCall.op = "parseFile" =>
    /\ pageObjectToTests = lastCall.before.pageObjectToTests
    /\ testToPageObjects = lastCall.before.testToPageObjects

\* parseFile returned chunks while the graph held edges
C3_Witness ==
  /\ lastCall.op = "parseFile"
  /\ ~lastCall.threw
  /\ Len(lastCall.chunks) > 0
  /\ DOMAIN pageObjectToTests # {}
  /\ DOMAIN testToPageObjects # {}

\* the import declarations of the i-th test file of the last analyzeImports call
CallImports(i) ==
  IF lastCall.fs[lastCall.testFiles[i]] = Unreadable THEN <<>>
  ELSE SourceOf(lastCall.fs[lastCall.testFiles[i]]).imports

\* the position of its first declaration whose module specifier has no value
FirstThrowing(imports) ==
  IF \E k \in DOMAIN imports : ~imports[k].literal
  THEN CHOOSE k \in DOMAIN imports :
         ~imports[k].literal /\ \A j \in 1..(k - 1) : imports[j].literal
  ELSE Len(imports) + 1

\* whether the analysis of the i-th test file fails
CallFails(i) ==
  \/ lastCall.fs[lastCall.testFiles[i]] = Unreadable
  \/ FirstThrowing(CallImports(i)) <= Len(CallImports(i))

\* the edges of the first n import declarations of the i-th test file
EdgesOfImports(i, n) ==
  LET imports == CallImports(i)
      test == getRelativePath(lastCall.rootDir, lastCall.testFiles[i])
  IN  UNION {{<<imports[k].names[m], test>> : m \in DOMAIN imports[k].names} :
               k \in {k \in DOMAIN imports : k <= n /\ IsPageObjectModule(imports[k].specifier)}}

(* C4, as stated: after analyzeImports the graph holds, besides what it held
   before, exactly the edges of the test files that did not fail.          *)
C4_OnlyEdgesOfGoodFiles ==
  lastCall.op = "analyzeImports" =>
    PageObjectEdges(This) =
      PageObjectEdges(lastCall.before) \cup
      UNION {EdgesOfImports(i, Len(CallImports(i))) :
               i \in {i \in DOMAIN lastCall.testFiles : ~CallFails(i)}}

(* C4, amended: analyzeImports returns with every test file gone through; the
   failures are exactly the unreadable files and the files with an import
   whose module specifier has no value; and the graph holds, besides what it
   held before, all edges of the files that did not fail and, of a file that
   failed, the edges of the import declarations before the failing one.    *)
C4_AnalyzeImportsSurvivesFailure ==
  lastCall.op = "analyzeImports" =>
    /\ lastCall.failed = {i \in DOMAIN lastCall.testFiles : CallFails(i)}
    /\ rootDir = lastCall.rootDir
    /\ PageObjectEdges(This) =
         PageObjectEdges(lastCall.before) \cup
         UNION {EdgesOfImports(i, FirstThrowing(CallImports(i)) - 1) :
                  i \in DOMAIN lastCall.testFiles}

\* a call in which a file failed and a later file added an edge
C4_Witness ==
  /\ lastCall.op = "analyzeImports"
  /\ \E i, j \in DOMAIN lastCall.testFiles :
       /\ i < j
       /\ CallFails(i)
       /\ ~CallFails(j)
       /\ EdgesOfImports(j, Len(CallImports(j))) # {}
       /\ ~(EdgesOfImports(j, Len(CallImports(j))) \subseteq PageObjectEdges(lastCall.before))

---------------------------------------------------------------------------
(* Properties of the chunks extracted from one source file                 *)

\* the chunks of the output that start on the line on which node j starts
ChunksAt(j) ==
  {k \in DOMAIN output.chunks :
     output.chunks[k].startLine = LineNumberAt(input.sf.src, input.sf.nodes[j].start)}

TestCallees == {<<"t","e","s","t">>, <<"i","t">>, <<"t","e","s","t",".","o","n","l","y">>, <<"i","t",".","o","n","l","y">>}
GroupingCallees == {<<"d","e","s","c","r","i","b","e">>, <<"t","e","s","t",".","d","e","s","c","r","i","b","e">>}
HookNamedArgs == {<<"'","B","e","f","o","r","e","E","a","c","h"," ","s","e","t","s"," ","u","p","'">>, <<"'","a","f","t","e","r"," ","l","o","g","i","n","'">>}

\* node j is a call of test or it, or of their only variants
IsTestCaseCall(j) == input.sf.nodes[j].callee \in TestCallees

\* node j is such a call with a name that does not start with before or after
IsNamedTestCase(j) ==
  /\ IsTestCaseCall(j)
  /\ Len(input.sf.nodes[j].args) >= 2
  /\ input.sf.nodes[j].args[1].text \notin HookNamedArgs

\* node j lies inside a call of describe or test.describe
InGroupingCall(j) ==
  \E a \in Ancestors(input.sf.nodes, j) : input.sf.nodes[a].callee \in GroupingCallees

(* C6: for every test-case call of a test file, nested grouping calls and
   grouping calls with fewer than two arguments included, exactly one test
   chunk is emitted, and it carries a suite name if and only if the call
   lies inside a grouping call.                                            *)
C6_EachTestCaseOnce ==
  output.ran =>
    \A j \in DOMAIN input.sf.nodes :
      IsNamedTestCase(j) =>
        /\ Cardinality({k \in ChunksAt(j) : output.chunks[k].type = "test"}) = 1
        /\ \A k \in ChunksAt(j) :
             ("testSuiteName" \in DOMAIN output.chunks[k]) <=> InGroupingCall(j)

\* a test case inside two nested grouping calls came out twice
C6_Witness ==
  /\ output.ran
  /\ \E j \in DOMAIN input.sf.nodes :
       /\ IsNamedTestCase(j)
       /\ Cardinality({a \in Ancestors(input.sf.nodes, j) :
                         /\ input.sf.nodes[a].callee \in GroupingCallees
                         /\ Len(input.sf.nodes[a].args) >= 2}) = 2
       /\ Cardinality(ChunksAt(j)) = 2

(* C7: a test-case call whose name starts with before or after, in any letter
   case, inside a grouping call or not, yields no chunk of type test.      *)
C7_HookNamesSkipped ==
  output.ran =>
    \A j \in DOMAIN input.sf.nodes :
      (IsTestCaseCall(j) /\ input.sf.nodes[j].args[1].text \in HookNamedArgs) =>
        \A k \in ChunksAt(j) : output.chunks[k].type # "test"

\* a file with such a call inside a grouping call and one outside, neither emitted
C7_Witness ==
  /\ output.ran
  /\ \E i, j \in DOMAIN input.sf.nodes :
       /\ IsTestCaseCall(i) /\ input.sf.nodes[i].args[1].text \in HookNamedArgs
       /\ InGroupingCall(i)
       /\ IsTestCaseCall(j) /\ input.sf.nodes[j].args[1].text \in HookNamedArgs
       /\ ~InGroupingCall(j)
       /\ ChunksAt(i) = {} /\ ChunksAt(j) = {}

\* the declarations the generic profile is to emit, at any depth
CountedDeclarations ==
  {i \in DOMAIN input.sf.nodes :
     \/ input.sf.nodes[i].kind \in {"Function", "Class", "Method"}
     \/ input.sf.nodes[i].kind = "VarDecl" /\ input.sf.nodes[i].init = "ArrowFunction"}

(* C9: the generic profile emits one chunk for every function, class and
   method declaration and every arrow function bound to a variable name, at
   any nesting depth.                                                      *)
C9_CountsEveryDeclaration ==
  output.ran => Len(output.chunks) = Cardinality(CountedDeclarations)

\* a file with a nested declaration, which is not among its chunks
C9_Witness ==
  /\ output.ran
  /\ \E i \in CountedDeclarations : input.sf.nodes[i].parent # 0 /\ ChunksAt(i) = {}
  /\ Len(output.chunks) < Cardinality(CountedDeclarations)

(* C10: the end of the location of every chunk is not before its start:
   endLine >= startLine, and endColumn >= startColumn on the same line.    *)
C10_EndNotBeforeStart ==
  output.ran =>
    \A k \in DOMAIN output.chunks :
      /\ output.chunks[k].endLine >= output.chunks[k].startLine
      /\ output.chunks[k].endLine = output.chunks[k].startLine
           => output.chunks[k].endColumn >= output.chunks[k].startColumn

\* a chunk of one line whose endColumn is below its startColumn
C10_Witness ==
  /\ output.ran
  /\ \E k \in DOMAIN output.chunks :
       /\ output.chunks[k].endLine = output.chunks[k].startLine
       /\ output.chunks[k].startLine > 1
       /\ output.chunks[k].endColumn < output.chunks[k].startColumn

---------------------------------------------------------------------------
(* Properties of the names and the kinds of the chunks                     *)

\* node j is a test-case call whose name argument is the empty string
IsUnnamedTestCase(j) ==
  /\ IsTestCaseCall(j)
  /\ Len(input.sf.nodes[j].args) >= 2
  /\ input.sf.nodes[j].args[1].kind = "StringLiteral"
  /\ extractStringValue(input.sf.nodes[j].args[1].text) = <<>>

(* C11: every emitted chunk has a name that is neither empty nor undefined;
   a test case whose name argument is an empty string gets the name
   <anonymous> or another text that is not empty.                          *)
C11_NamesNotEmpty ==
  output.ran =>
    \A k \in DOMAIN output.chunks :
      /\ "name" \in DOMAIN output.chunks[k]
      /\ Len(output.chunks[k].name) > 0

\* the chunk of test('', fn) came out with the empty name
C11_Witness ==
  /\ output.ran
  /\ \E j \in DOMAIN input.sf.nodes :
       /\ IsUnnamedTestCase(j)
       /\ \E k \in ChunksAt(j) :
            output.chunks[k].type = "test" /\ output.chunks[k].name = <<>>

\* the kinds of the enumeration of the produced chunk record
ListedKinds ==
  {"function", "method", "constructor", "class", "test", "locator", "action",
   "assert", "helper", "setup", "fixture", "constant", "iife"}

\* the first five of them
FirstFiveKinds == {"function", "method", "constructor", "class", "test"}

\* node j is a variable of the source file initialized with an arrow function
IsBoundArrow(j) ==
  /\ input.sf.nodes[j].kind = "VarDecl"
  /\ input.sf.nodes[j].init = "ArrowFunction"
  /\ input.sf.nodes[j].parent = 0

(* C12, as stated: the kind of every chunk is one of function, method,
   constructor, class, test, locator, action, assert, helper, setup, fixture,
   constant, iife, and a chunk of the generic profile has one of the first
   five.                                                                   *)
C12_OnlyListedKinds ==
  output.ran =>
    \A k \in DOMAIN output.chunks :
      /\ output.chunks[k].type \in ListedKinds
      /\ output.chunks[k].type \in FirstFiveKinds

(* C12, amended: the enumeration has a fourteenth kind, arrow_function. A
   chunk of the generic profile has one of the first five kinds or
   arrow_function, and it has arrow_function exactly when it is the chunk of
   a variable of the source file initialized with an arrow function.       *)
C12_KindsWithArrowFunction ==
  output.ran =>
    /\ \A k \in DOMAIN output.chunks :
         /\ output.chunks[k].type \in ListedKinds \cup {"arrow_function"}
         /\ output.chunks[k].type \in FirstFiveKinds \cup {"arrow_function"}
    /\ \A j \in DOMAIN input.sf.nodes :
         \A k \in ChunksAt(j) :
           output.chunks[k].type = "arrow_function" <=> IsBoundArrow(j)

\* the chunk of const g = () => {} came out with the kind arrow_function
C12_Witness ==
  /\ output.ran
  /\ \E j \in DOMAIN input.sf.nodes :
       /\ IsBoundArrow(j)
       /\ \E k \in ChunksAt(j) : output.chunks[k].type = "arrow_function"

---------------------------------------------------------------------------
(* Properties of the chunks of the classes of an object file               *)

\* the classes of the source file
ClassesOfInput == {c \in DOMAIN input.sf.nodes : input.sf.nodes[c].kind = "Class"}

\* the members of class c of the given kind
MembersOf(c, kind) ==
  {m \in DOMAIN input.sf.nodes :
     input.sf.nodes[m].parent = c /\ input.sf.nodes[m].kind = kind}

\* the chunks of the output that belong to class c and have the given kind
ChunksOfClass(c, type) ==
  {k \in DOMAIN output.chunks :
     /\ "className" \in DOMAIN output.chunks[k]
     /\ output.chunks[k].className = input.sf.nodes[c].name
     /\ output.chunks[k].type = type}

\* the properties of class c whose type is a locator type
LocatorProperties(c) ==
  {p \in MembersOf(c, "Property") : Includes(input.sf.nodes[p].type, <<"L","o","c","a","t","o","r">>)}

\* the statements of the constructor of class c that assign this.<name>
AssignmentsTo(c, name) ==
  {a \in DOMAIN input.sf.nodes :
     /\ input.sf.nodes[a].kind = "Assign"
     /\ input.sf.nodes[a].parent \in MembersOf(c, "Constructor")
     /\ input.sf.nodes[a].name = name}

\* the constructor of class c assigns each of its locator properties once
AssignsEachLocatorOnce(c) ==
  \A p \in LocatorProperties(c) :
    Cardinality(AssignmentsTo(c, input.sf.nodes[p].name)) = 1

(* C13: a class with N locator-typed properties, each assigned exactly once
   in its constructor, yields exactly N locator chunks, and the startLine of
   each is the source line of the assignment this.<name> = ... of its
   property in the constructor, not the line of the declaration.           *)
C13_LocatorAtAssignmentLine ==
  output.ran =>
    \A c \in ClassesOfInput :
      AssignsEachLocatorOnce(c) =>
        /\ Cardinality(ChunksOfClass(c, "locator")) = Cardinality(LocatorProperties(c))
        /\ \A p \in LocatorProperties(c) :
             \E k \in ChunksOfClass(c, "locator") :
               /\ output.chunks[k].name = input.sf.nodes[p].name
               /\ \A a \in AssignmentsTo(c, input.sf.nodes[p].name) :
                    output.chunks[k].startLine
                      = LineNumberAt(input.sf.src, input.sf.nodes[a].start)

\* the locator chunk of a property assigned on the line after the line of the
\* constructor came out with the line of the constructor
C13_Witness ==
  /\ output.ran
  /\ \E c \in ClassesOfInput :
       /\ AssignsEachLocatorOnce(c)
       /\ \E p \in LocatorProperties(c) :
            \E a \in AssignmentsTo(c, input.sf.nodes[p].name) :
              \E k \in ChunksOfClass(c, "locator") :
                /\ output.chunks[k].name = input.sf.nodes[p].name
                /\ output.chunks[k].startLine
                     = LineNumberAt(input.sf.src, input.sf.nodes[input.sf.nodes[a].parent].start)
                /\ LineNumberAt(input.sf.src, input.sf.nodes[a].start)
                     = output.chunks[k].startLine + 1

(* C14: within one class no property name is emitted both as a locator chunk
   and as a helper chunk, whatever expression the constructor assigns to the
   property.                                                               *)
C14_LocatorNotAlsoHelper ==
  output.ran =>
    \A c \in ClassesOfInput :
      \A k \in ChunksOfClass(c, "locator"), h \in ChunksOfClass(c, "helper") :
        output.chunks[k].name # output.chunks[h].name

\* a locator-typed property that the constructor assigns from an expression
\* without page.locator or page.getBy came out as a locator and as a helper
C14_Witness ==
  /\ output.ran
  /\ \E c \in ClassesOfInput :
       \E p \in LocatorProperties(c) :
         /\ \E a \in AssignmentsTo(c, input.sf.nodes[p].name) :
              ~IsLocatorValue(input.sf.nodes[a].value)
         /\ \E k \in ChunksOfClass(c, "locator"), h \in ChunksOfClass(c, "helper") :
              /\ output.chunks[k].name = input.sf.nodes[p].name
              /\ output.chunks[h].name = input.sf.nodes[p].name

(* C15: every class of an object file that has a constructor contributes at
   least one chunk to the result of the file, wherever the class stands in
   the file.                                                               *)
C15_ConstructorClassHasChunk ==
  output.ran =>
    \A c \in ClassesOfInput :
      MembersOf(c, "Constructor") # {} =>
        \E k \in DOMAIN output.chunks :
          /\ "className" \in DOMAIN output.chunks[k]
          /\ output.chunks[k].className = input.sf.nodes[c].name

\* a class that has only a constructor, after a class that yielded chunks,
\* has no chunk in the result
C15_Witness ==
  /\ output.ran
  /\ Len(output.chunks) > 0
  /\ \E c \in ClassesOfInput :
       /\ MembersOf(c, "Constructor") # {}
       /\ \E b \in ClassesOfInput : b < c
       /\ \A k \in DOMAIN output.chunks :
            output.chunks[k].className # input.sf.nodes[c].name

AssertionVocabulary == {<<"e","x","p","e","c","t">>, <<"a","s","s","e","r","t">>, <<"v","e","r","i","f","y">>, <<"c","h","e","c","k">>, <<"s","h","o","u","l","d">>}

InteractionVocabulary ==
  {<<"c","l","i","c","k">>, <<"f","i","l","l">>, <<"g","o","t","o">>, <<"s","e","l","e","c","t">>, <<"n","a","v","i","g","a","t","e">>, <<"s","u","b","m","i","t">>, <<"o","p","e","n">>,
   <<"c","l","o","s","e">>, <<"d","r","a","g">>, <<"d","r","o","p">>}

\* a word of the vocabulary occurs in the name or the text of a method of class c
MethodsMention(c, vocabulary) ==
  \E m \in MembersOf(c, "Method"), w \in vocabulary :
    \/ Includes(ToLowerCase(input.sf.nodes[m].name), w)
    \/ Includes(ToLowerCase(input.sf.nodes[m].text), w)

\* the chunks that hold the methods of class c
MethodChunksOf(c) ==
  {k \in DOMAIN output.chunks :
     /\ "className" \in DOMAIN output.chunks[k]
     /\ output.chunks[k].className = input.sf.nodes[c].name
     /\ output.chunks[k].name = input.sf.nodes[c].name \o <<"_","a","c","t","i","o","n","s">>}

(* C16: the kind of the merged method chunk of a class is assert if a word of
   the assertion vocabulary occurs in the bodies or the names of its methods,
   otherwise action if a word of the interaction vocabulary occurs there,
   otherwise helper.                                                       *)
C16_KindByVocabulary ==
  output.ran =>
    \A c \in ClassesOfInput :
      \A k \in MethodChunksOf(c) :
        output.chunks[k].type =
          IF MethodsMention(c, AssertionVocabulary) THEN "assert"
          ELSE IF MethodsMention(c, InteractionVocabulary) THEN "action"
          ELSE "helper"

\* without the code in the chunks, a class whose method calls expect in its
\* body, under a name outside both vocabularies, came out as helper
C16_Witness ==
  /\ output.ran /\ ~output.includeCode
  /\ \E c \in ClassesOfInput :
       /\ MethodsMention(c, {<<"e","x","p","e","c","t">>})
       /\ \E k \in MethodChunksOf(c) : output.chunks[k].type = "helper"

\* the names of the methods of class c in source order
RECURSIVE NamesInOrder(_)
NamesInOrder(methods) ==
  IF methods = {} THEN <<>>
  ELSE <<input.sf.nodes[Min(methods)].name>> \o NamesInOrder(methods \ {Min(methods)})

(* C17: a class with at least one method yields exactly one method chunk,
   named <ClassName>_actions, that lists the names of all its methods in
   source order, starts on the line on which the first method starts and
   ends on the line on which the last method ends; no chunk is emitted for
   a single method.                                                        *)
C17_OneActionsChunk ==
  output.ran =>
    \A c \in ClassesOfInput :
      LET methods == MembersOf(c, "Method")
          first == input.sf.nodes[Min(methods)]
          last == input.sf.nodes[Max(methods)]
      IN  /\ Cardinality(MethodChunksOf(c)) = (IF methods = {} THEN 0 ELSE 1)
          /\ \A k \in MethodChunksOf(c) :
               /\ output.chunks[k].functionName = Join(NamesInOrder(methods), <<","," ">>)
               /\ output.chunks[k].startLine = LineNumberAt(input.sf.src, first.start)
               /\ output.chunks[k].endLine = LineNumberAt(input.sf.src, last.end)
          /\ \A m \in methods :
               /\ ChunksAt(m) \subseteq
                    (IF m = Min(methods) THEN MethodChunksOf(c) ELSE {})
               /\ \A k \in DOMAIN output.chunks :
                    output.chunks[k].name # input.sf.nodes[m].name

\* a class with two methods and one chunk that lists both
C17_Witness ==
  /\ output.ran
  /\ \E c \in ClassesOfInput :
       /\ Cardinality(MembersOf(c, "Method")) >= 2
       /\ \E k \in MethodChunksOf(c) :
            /\ output.chunks[k].endLine > output.chunks[k].startLine
            /\ Len(output.chunks[k].functionName)
                 > Len(input.sf.nodes[Min(MembersOf(c, "Method"))].name)

---------------------------------------------------------------------------
(* Properties that link the relationship graph to the chunks of a class    *)

\* the chunks of the last parseFile call that belong to a class
ClassChunksOfCall ==
  {k \in DOMAIN lastCall.chunks : "relatedTestCases" \in DOMAIN lastCall.chunks[k]}

\* the last parseFile call returned, for every chunk of a class, the test
\* files the graph links to the name of the class, and no other
LookupFollowsGraph ==
  (lastCall.op = "parseFile" /\ ~lastCall.threw) =>
    \A k \in ClassChunksOfCall :
      Range(lastCall.chunks[k].relatedTestCases)
        = {e[2] : e \in {e \in PageObjectEdges(This) :
                            e[1] = lastCall.chunks[k].className}}

\* the last analyzeImports call added no edge but those of the named imports
\* from page-object modules of the files it was given
OnlyImportedEdges ==
  lastCall.op = "analyzeImports" =>
    PageObjectEdges(This) \subseteq
      PageObjectEdges(lastCall.before) \cup
      UNION {EdgesOfImports(i, Len(CallImports(i))) : i \in DOMAIN lastCall.testFiles}

\* no call and no edit takes an edge out of the graph
EdgesStay == PageObjectEdges(This) \subseteq PageObjectEdges(This)'

\* the import declarations of the i-th test file that the analysis reaches:
\* all of them, or those before the first whose module specifier has no value
ReachedImports(i, all) ==
  IF all THEN Len(CallImports(i)) ELSE FirstThrowing(CallImports(i)) - 1

\* after the last analyzeImports call both maps hold the edges of those
\* import declarations of every test file of the call
ImportsRecorded(all) ==
  lastCall.op = "analyzeImports" =>
    \A i \in DOMAIN lastCall.testFiles :
      /\ EdgesOfImports(i, ReachedImports(i, all)) \subseteq PageObjectEdges(This)
      /\ EdgesOfImports(i, ReachedImports(i, all)) \subseteq TestEdges(This)

(* C18, as stated: if a test file given to analyzeImports has a named import
   C from a module whose path contains the page-objects marker, then after
   the analysis the reverse lookup of that test file contains C, and every
   chunk extracted afterwards for class C has a relatedTestCases list that
   contains the path of the test file; the list of a class that no analysed
   test file imports is empty.                                             *)
C18_EveryImportLinked ==
  /\ [](ImportsRecorded(TRUE) /\ OnlyImportedEdges /\ LookupFollowsGraph)
  /\ [][EdgesStay]_vars

(* C18, amended: the same for the named imports of the import declarations
   that the analysis of the test file reaches, which are those before the
   first declaration whose module specifier is not a string literal; the
   path in the lists is the path of the test file relative to the root given
   to analyzeImports.                                                      *)
C18_ReachedImportsLinked ==
  /\ [](ImportsRecorded(FALSE) /\ OnlyImportedEdges /\ LookupFollowsGraph)
  /\ [][EdgesStay]_vars

\* the chunks of class LoginPage, parsed after a.spec.ts was analysed, name
\* that test file
C18_Witness ==
  /\ lastCall.op = "parseFile" /\ ~lastCall.threw
  /\ \E k \in ClassChunksOfCall :
       /\ lastCall.chunks[k].className = <<"L","o","g","i","n","P","a","g","e">>
       /\ <<"t","e","s","t","s","/","a",".","s","p","e","c",".","t","s">> \in Range(lastCall.chunks[k].relatedTestCases)
       /\ <<<<"L","o","g","i","n","P","a","g","e">>, <<"t","e","s","t","s","/","a",".","s","p","e","c",".","t","s">>>> \in TestEdges(This)

---------------------------------------------------------------------------
(* Properties of the fallback chains of the specialized profile            *)

\* node j is a call of setup or test.use with an argument
MatchesSetup(j) ==
  LET n == input.sf.nodes[j]
  IN  /\ n.kind = "Call"
      /\ (n.callee = <<"s","e","t","u","p">> \/ Includes(n.callee, <<"t","e","s","t",".","u","s","e">>))
      /\ Len(n.args) >= 1

\* node j is a property of the object literal given to an extend call
MatchesFixture(j) ==
  LET n == input.sf.nodes[j]
  IN  /\ n.kind = "PropAssign"
      /\ n.slot = 1
      /\ Includes(input.sf.nodes[n.parent].callee, <<".","e","x","t","e","n","d">>)
      /\ input.sf.nodes[n.parent].args[1].kind = "ObjectLiteral"

\* node j is an exported variable of the file with an object or array literal
MatchesConstant(j) ==
  LET n == input.sf.nodes[j]
  IN  /\ n.kind = "VarDecl" /\ n.parent = 0
      /\ n.exported /\ n.init \in {"ObjectLiteral", "ArrayLiteral"}

\* node j is a statement that calls a parenthesized function
MatchesIife(j) ==
  LET n == input.sf.nodes[j]
  IN  n.kind = "Call" /\ n.calleeKind = "ParenthesizedFunction" /\ n.stmt

EdgeCaseMatches ==
  {j \in DOMAIN input.sf.nodes :
     MatchesSetup(j) \/ MatchesFixture(j) \/ MatchesConstant(j) \/ MatchesIife(j)}

\* the declarations of the file that the generic profile emits
GenericMatches ==
  {j \in DOMAIN input.sf.nodes :
     /\ input.sf.nodes[j].parent = 0
     /\ \/ input.sf.nodes[j].kind \in {"Function", "Class"}
        \/ input.sf.nodes[j].kind = "VarDecl" /\ input.sf.nodes[j].init = "ArrowFunction"}

EdgeCaseKinds == {"setup", "fixture", "constant", "iife"}

GenericKinds == {"function", "class", "method", "constructor", "arrow_function"}

\* the result is that of the edge-case extraction: a chunk for every match of
\* an edge-case pattern and no other, or without a match the generic chunks
IsEdgeCaseResult ==
  IF EdgeCaseMatches # {}
  THEN /\ Len(output.chunks) = Cardinality(EdgeCaseMatches)
       /\ \A j \in EdgeCaseMatches : Cardinality(ChunksAt(j)) = 1
       /\ \A k \in DOMAIN output.chunks : output.chunks[k].type \in EdgeCaseKinds
  ELSE /\ Len(output.chunks) = Cardinality(GenericMatches)
       /\ \A j \in GenericMatches : Cardinality(ChunksAt(j)) = 1
       /\ \A k \in DOMAIN output.chunks : output.chunks[k].type \in GenericKinds

(* C19: for an object file that declares no class the result holds the
   edge-case chunks when a setup, fixture, exported-constant or IIFE pattern
   matches, and otherwise the chunks of the generic profile; the two are not
   mixed, and the result is empty only when the generic extraction finds
   nothing either.                                                         *)
C19_ObjectFileFallbackChain ==
  (output.ran /\ output.filePath = ObjectFilePath) =>
    /\ IsEdgeCaseResult
    /\ Len(output.chunks) = 0 => (EdgeCaseMatches = {} /\ GenericMatches = {})

\* an object file with a function and an exported constant gave the chunk of
\* the constant alone
C19_Witness ==
  /\ output.ran /\ output.filePath = ObjectFilePath
  /\ \E j \in GenericMatches : ChunksAt(j) = {}
  /\ \E j \in DOMAIN input.sf.nodes : MatchesConstant(j) /\ ChunksAt(j) # {}
  /\ \A k \in DOMAIN output.chunks : output.chunks[k].type \in EdgeCaseKinds

\* the file holds a call of describe, test.describe, test or it
HasTestCalls ==
  \E j \in DOMAIN input.sf.nodes :
    /\ input.sf.nodes[j].kind = "Call"
    /\ input.sf.nodes[j].callee \in GroupingCallees \cup TestCallees

(* C20: for a test file of the specialized profile without a grouping call
   and without a test-case call the result is that of the edge-case
   extraction; when the test extraction yields a chunk the edge-case
   extraction adds nothing, and every chunk of the result has kind test.   *)
C20_TestFileFallback ==
  (output.ran /\ output.filePath = TestFilePath) =>
    LET tests == extractPlaywrightSpecChunks(
                   input.sf, getRelativePath(ExtractRoot, TestFilePath), output.includeCode)
    IN  /\ ~HasTestCalls => IsEdgeCaseResult
        /\ Len(tests) > 0 =>
             /\ output.chunks = tests
             /\ \A k \in DOMAIN output.chunks : output.chunks[k].type = "test"
             /\ \A j \in EdgeCaseMatches : ChunksAt(j) = {}

\* a test file with a test case and a setup call gave the test chunk alone
C20_Witness ==
  /\ output.ran /\ output.filePath = TestFilePath
  /\ \E j \in DOMAIN input.sf.nodes : MatchesSetup(j) /\ ChunksAt(j) = {}
  /\ Len(output.chunks) > 0
  /\ \A k \in DOMAIN output.chunks : output.chunks[k].type = "test"

---------------------------------------------------------------------------
(* Properties of parseFile over file names, profiles and the includeCode
   flag                                                                    *)

(* C21: when parseFile is called with includeCode false, no chunk of any
   kind and of any extraction path has a code value.                       *)
C21_NoCodeUnlessRequested ==
  (output.ran /\ ~output.includeCode) =>
    \A k \in DOMAIN output.chunks :
      "code" \in DOMAIN output.chunks[k] => ~output.chunks[k].code.defined

\* a class file parsed without the code gave a helper chunk for a property
\* that its constructor assigns, and the chunk has no code
C21_Witness ==
  /\ output.ran /\ ~output.includeCode
  /\ output.projectType = "playwright"
  /\ \E k \in DOMAIN output.chunks :
       /\ output.chunks[k].type = "helper"
       /\ output.chunks[k].name = <<"u","r","l">>
       /\ ~output.chunks[k].code.defined

\* the base name ends with .spec.ts, .spec.js, .api-spec.ts or .api-spec.js,
\* or denotes a setup file
IsStatedTestName(fileName) ==
  \/ \E suffix \in {<<".","s","p","e","c",".","t","s">>, <<".","s","p","e","c",".","j","s">>, <<".","a","p","i","-","s","p","e","c",".","t","s">>, <<".","a","p","i","-","s","p","e","c",".","j","s">>} :
       EndsWith(fileName, suffix)
  \/ Includes(fileName, <<".","s","e","t","u","p">>)

\* the extraction a file gets by its profile and its base name
StatedStrategy(projectType, filePath) ==
  IF projectType # "playwright" THEN "generic"
  ELSE IF IsStatedTestName(Basename(filePath)) THEN "test file"
  ELSE "object file"

\* what an extraction returns for the text that was parsed, stored under rel
ResultOfStrategyAt(strategy, rel) ==
  LET tests == extractPlaywrightSpecChunks(input.sf, rel, output.includeCode)
  IN  CASE strategy = "generic" ->
             extractGenericChunks(input.sf, rel, output.includeCode)
        [] strategy = "test file" ->
             IF Len(tests) > 0 THEN tests
             ELSE extractEdgeCasePatterns(input.sf, rel, output.includeCode)
        [] strategy = "object file" ->
             extractPlaywrightPOMChunks(input.sf, rel, output.includeCode, pageObjectToTests)

ResultOfStrategy(strategy) ==
  ResultOfStrategyAt(strategy, getRelativePath(ExtractRoot, output.filePath))

(* C22: the extraction of a file is decided by the profile and the base name
   of the file alone: under the specialized profile the test-file extraction
   exactly when the base name ends with .spec.ts, .spec.js, .api-spec.ts or
   .api-spec.js or denotes a setup file, the object-file extraction
   otherwise, and under the generic profile the generic extraction,
   whatever the file holds.                                                *)
C22_StrategyByNameAndProfile ==
  output.ran =>
    /\ output.chunks = ResultOfStrategy(StatedStrategy(output.projectType, output.filePath))
    /\ StatedStrategy(output.projectType, output.filePath) # "test file" =>
         \A k \in DOMAIN output.chunks : output.chunks[k].type # "test"
    /\ StatedStrategy(output.projectType, output.filePath) # "object file" =>
         \A k \in DOMAIN output.chunks :
           output.chunks[k].type \notin {"locator", "action", "assert", "helper"}

\* a text with a test case under an object-file name gave no test chunk
C22_Witness ==
  /\ output.ran
  /\ output.projectType = "playwright"
  /\ output.filePath = PlainFilePath
  /\ \E j \in DOMAIN input.sf.nodes :
       /\ input.sf.nodes[j].kind = "Call"
       /\ input.sf.nodes[j].parent = 0
       /\ input.sf.nodes[j].callee = <<"t","e","s","t">>
       /\ input.sf.nodes[j].args[1].text = <<"'","w","o","r","k","s","'">>
  /\ \A k \in DOMAIN output.chunks : output.chunks[k].type # "test"

(* C24: startColumn and endColumn of every chunk are columns: the offsets of
   the start and of the end of the node of the chunk from the newline before
   them, so that a chunk that starts at the first character of a line has
   startColumn 0 on whichever line it is.                                   *)
C24_ColumnsWithinLine ==
  output.ran =>
    \A k \in DOMAIN output.chunks :
      \E j \in DOMAIN input.sf.nodes :
        /\ k \in ChunksAt(j)
        /\ output.chunks[k].startColumn = getColumnFromPos(input.sf.src, input.sf.nodes[j].start)
        /\ output.chunks[k].endColumn = getColumnFromPos(input.sf.src, input.sf.nodes[j].end)

\* a chunk of a declaration at the first character of a later line, with a
\* startColumn that is not 0
C24_Witness ==
  /\ output.ran
  /\ \E j \in DOMAIN input.sf.nodes :
       /\ input.sf.nodes[j].parent = 0
       /\ LineNumberAt(input.sf.src, input.sf.nodes[j].start) > 1
       /\ getColumnFromPos(input.sf.src, input.sf.nodes[j].start) = 0
       /\ \E k \in ChunksAt(j) :
            /\ output.chunks[k].startColumn > 0
            /\ output.chunks[k].endColumn = getColumnFromPos(input.sf.src, input.sf.nodes[j].end)

\* the chunks of the given kind that start on the line of member m
MemberChunks(m, type) == {k \in ChunksAt(m) : output.chunks[k].type = type}

(* C26: in the generic profile every method of a class yields exactly one
   chunk of kind method and the constructor of a class yields one chunk of
   kind constructor: a class with a constructor produces a constructor
   chunk.                                                                   *)
C26_ConstructorChunk ==
  (output.ran /\ output.projectType = "angular") =>
    \A c \in ClassesOfInput :
      /\ \A m \in MembersOf(c, "Method") : Cardinality(MemberChunks(m, "method")) = 1
      /\ \A m \in MembersOf(c, "Constructor") : Cardinality(MemberChunks(m, "constructor")) = 1

\* a class with a constructor and a method came out with a method chunk and
\* without a constructor chunk
C26_Witness ==
  /\ output.ran
  /\ output.projectType = "angular"
  /\ \E c \in ClassesOfInput :
       /\ MembersOf(c, "Constructor") # {}
       /\ \E m \in MembersOf(c, "Method") : Cardinality(MemberChunks(m, "method")) = 1
  /\ \A k \in DOMAIN output.chunks : output.chunks[k].type # "constructor"

\* a chunk list without the code fields
WithoutCode(chunks) ==
  [k \in DOMAIN chunks |-> [f \in DOMAIN chunks[k] \ {"code"} |-> chunks[k][f]]]

\* what parseFile returns for the same file with the other value of includeCode
WithOtherIncludeCode ==
  ParsedChunks(input.sf, output.filePath, getRelativePath(ExtractRoot, output.filePath),
               ~output.includeCode, output.projectType, pageObjectToTests)

(* C27: for one file and one relationship graph, parseFile with includeCode
   true and with includeCode false return the same chunks but for the code
   field; the kind of the chunk <ClassName>_actions is the same in both.    *)
C27_SameButForCode ==
  output.ran => WithoutCode(output.chunks) = WithoutCode(WithOtherIncludeCode)

\* the merged methods chunk of a class has one kind with the code and
\* another without it
C27_Witness ==
  /\ output.ran
  /\ Len(output.chunks) = Len(WithOtherIncludeCode)
  /\ \E k \in DOMAIN output.chunks :
       /\ output.chunks[k].name = WithOtherIncludeCode[k].name
       /\ EndsWith(output.chunks[k].name, <<"_","a","c","t","i","o","n","s">>)
       /\ output.chunks[k].type # WithOtherIncludeCode[k].type

---------------------------------------------------------------------------
(* Properties of what parseFile derives from the place of a file           *)

RepositoryMarkers == {<<"p","r","o","j","e","c","t","s">>, <<"r","e","p","o","s">>, <<"s","r","c">>}
ModuleMarkers == {<<"s","r","c">>, <<"t","e","s","t","s">>, <<"p","a","g","e","-","o","b","j","e","c","t","s">>}

\* the segment behind the first segment that is one of the markers, if both exist
HasSegmentAfter(parts, markers) ==
  FindIndex(parts, markers) >= 0 /\ PartTruthy(parts, FindIndex(parts, markers) + 1)

SegmentAfter(parts, markers) == parts[FindIndex(parts, markers) + 2]

\* the chunks that carry a repository and a module: all but those of the
\* generic extraction
Located == {k \in DOMAIN output.chunks : "repository" \in DOMAIN output.chunks[k]}

(* C25: in every chunk of the specialized profile, repository is the segment
   of the stored relative path behind its first segment equal to projects,
   repos or src, also when that segment is the first of the path, and module
   is the segment behind the first segment equal to src, tests or
   page-objects, or the name of the parent directory when there is no such
   segment with a segment behind it.                                        *)
C25_RepositoryAndModule ==
  output.ran =>
    \A k \in Located :
      LET parts == Split(output.chunks[k].filePath, "/")
      IN  /\ HasSegmentAfter(parts, RepositoryMarkers) =>
               output.chunks[k].repository = SegmentAfter(parts, RepositoryMarkers)
          /\ output.chunks[k].module =
               IF HasSegmentAfter(parts, ModuleMarkers)
               THEN SegmentAfter(parts, ModuleMarkers)
               ELSE Basename(Dirname(output.chunks[k].filePath))

\* a chunk whose stored path begins with src/app has the repository unknown
\* and the module app
C25_Witness ==
  /\ output.ran
  /\ \E k \in Located :
       LET parts == Split(output.chunks[k].filePath, "/")
       IN  /\ Len(parts) = 3
           /\ parts[1] = <<"s","r","c">>
           /\ parts[2] = <<"a","p","p">>
           /\ output.chunks[k].repository = <<"u","n","k","n","o","w","n">>
           /\ output.chunks[k].module = <<"a","p","p">>

\* the one scanned file was given to the import analysis
Analyzed == files[1] \in Range(testFiles)

(* C28: in a run of the specialized profile, the files given to the import
   analysis are the files parseFile handles as test files: a file that was
   analyzed gets the test-file extraction and a file that was not gets the
   object-file extraction.                                                  *)
C28_AnalyzedIffTestFile ==
  (output.ran /\ files # <<>>) =>
    output.chunks =
      ResultOfStrategyAt(IF Analyzed THEN "test file" ELSE "object file",
                         getRelativePath(rootDir, output.filePath))

\* a file with a test case was not analyzed and came out as a test chunk
C28_Witness ==
  /\ output.ran
  /\ files = << <<"/","w","/","t","e","s","t","s","/","x",".","s","e","t","u","p","H","e","l","p","e","r",".","t","s">> >>
  /\ testFiles = <<>>
  /\ \E k \in DOMAIN output.chunks : output.chunks[k].type = "test"

\* a file with a class was analyzed and came out as an object file
C28_AnalyzedObjectFile ==
  /\ output.ran
  /\ files # <<>>
  /\ Analyzed
  /\ \E k \in DOMAIN output.chunks : output.chunks[k].type \in {"locator", "helper"}

---------------------------------------------------------------------------
(* Properties of the sequence index returns and of the parser over runs    *)

\* where the chunks of the i-th file of a completed run start in its result
OffsetOf(r, i) == SumExtracted(SubSeq(r.log, 1, i - 1), 1)

\* the part of the result of a completed run that its i-th file contributed
SegmentOf(r, i) ==
  IF r.log[i].threw THEN <<>>
  ELSE SubSeq(r.result, OffsetOf(r, i) + 1, OffsetOf(r, i) + r.log[i].extracted)

(* C23: the sequence index returns is the concatenation of the chunk lists
   of the files in the order the scanner returned them: each iteration
   appends the chunks parseFile returned for the next scanned file, in their
   order, behind those of the files before it, the returned sequence is the
   one so built, and its i-th segment holds chunks of the i-th file only.   *)
C23_ConcatenatedInScanOrder ==
  /\ [][/\ (pc = "idle" /\ pc' # "idle") => allChunks' = <<>>
        /\ (pc = "parse" /\ fi <= Len(files)) =>
             LET parsed == parseFile(This, fs, files[fi], options.includeCode,
                                     options.projectType)
             IN  /\ fi' = fi + 1
                 /\ allChunks' = allChunks \o (IF parsed.threw THEN <<>> ELSE parsed.chunks)
        /\ (pc = "parse" /\ pc' = "idle") =>
             /\ Len(done') = Len(done) + 1
             /\ done'[Len(done')].result = allChunks
             /\ done'[Len(done')].files = files]_vars
  /\ [](\A k \in DOMAIN done :
          ~done[k].threw =>
            \A i \in DOMAIN done[k].log :
              \A c \in DOMAIN SegmentOf(done[k], i) :
                Basename(SegmentOf(done[k], i)[c].filePath) = Basename(done[k].files[i]))

\* a completed run whose result holds the chunks of two files, those of the
\* file scanned first before those of the other
C23_Witness ==
  \E k \in DOMAIN done :
    \E i, j \in DOMAIN done[k].log :
      /\ ~done[k].threw
      /\ i < j
      /\ Len(SegmentOf(done[k], i)) > 1
      /\ Len(SegmentOf(done[k], j)) > 0
      /\ done[k].result[1].filePath # done[k].result[Len(done[k].result)].filePath

\* the root directory has been set: the last call was analyzeImports or a
\* parseFile that read its file, or the parser holds a root
RootWasSet ==
  \/ lastCall.op = "analyzeImports"
  \/ lastCall.op = "parseFile" /\ ~lastCall.threw
  \/ Truthy(rootDir)

(* C29: once the root directory is set, by analyzeImports or by the first
   parseFile call that reads its file, no later parseFile call changes it,
   and the chunks of the later calls carry paths relative to it; a parseFile
   call that cannot read its file leaves the root directory as it is.       *)
C29_RootDirSetOnce ==
  [][(calls' = calls + 1 /\ lastCall'.op = "parseFile") =>
       /\ lastCall'.threw => rootDir' = rootDir
       /\ RootWasSet =>
            /\ rootDir' = rootDir
            /\ \A k \in DOMAIN lastCall'.chunks :
                 lastCall'.chunks[k].filePath = getRelativePath(rootDir, lastCall'.filePath)]_vars

\* the second of two parseFile calls that read their files found no root
\* and set one
C29_Witness ==
  /\ calls = 2
  /\ edits = 0
  /\ lastCall.op = "parseFile"
  /\ ~lastCall.threw
  /\ ~Truthy(lastCall.before.rootDir)
  /\ rootDir = <<"/","w">>
  /\ Len(lastCall.chunks) > 0

\* the chunks of a completed run that belong to a class of the given name
ClassChunksOfRun(r, className) ==
  {k \in DOMAIN r.result :
     /\ "relatedTestCases" \in DOMAIN r.result[k]
     /\ r.result[k].className = className}

(* C30: no step takes an edge out of either map of the relationship graph,
   so the test files a run of index returned for a class are still returned
   for that class by every later run on the same indexer.                   *)
C30_EdgesOnlyGrow ==
  /\ [][/\ PageObjectEdges(This) \subseteq PageObjectEdges(This')
        /\ TestEdges(This) \subseteq TestEdges(This')]_vars
  /\ [](\A i, j \in DOMAIN done :
          (i < j /\ ~done[i].threw /\ ~done[j].threw
                 /\ done[j].options.projectType = "playwright") =>
            \A a \in DOMAIN done[i].result :
              "relatedTestCases" \in DOMAIN done[i].result[a] =>
                \A b \in ClassChunksOfRun(done[j], done[i].result[a].className) :
                  Range(done[i].result[a].relatedTestCases)
                    \subseteq Range(done[j].result[b].relatedTestCases))

\* the second run still names a.spec.ts for LoginPage although the file no
\* longer holds a test when it runs
C30_Witness ==
  /\ Len(done) = 2
  /\ ~done[1].threw /\ ~done[2].threw
  /\ done[1].fs[<<"/","w","/","t","e","s","t","s","/","a",".","s","p","e","c",".","t","s">>] = "SpecA"
  /\ done[2].fs[<<"/","w","/","t","e","s","t","s","/","a",".","s","p","e","c",".","t","s">>] = "GenericA"
  /\ done[2].options.projectType = "playwright"
  /\ \E b \in ClassChunksOfRun(done[2], <<"L","o","g","i","n","P","a","g","e">>) :
       \E t \in Range(done[2].result[b].relatedTestCases) : EndsWith(t, <<"a",".","s","p","e","c",".","t","s">>)

=============================================================================
